---- MODULE Spec2Model ----
(***************************************************************************)
(* Model of the quiz session engine of greek-quiz-bot (src/bot.py).         *)
(*                                                                         *)
(* One Telegram user is modelled: every piece of program state             *)
(* (user_sessions, paused_sessions, topic_stats, topic_memory,             *)
(* quiz_sessions, answers) is keyed by user_id and no handler reads or     *)
(* writes another user's entry.                                            *)
(*                                                                         *)
(* A handler is a coroutine.  Each action below is the code that runs      *)
(* between two awaits, so the actions of one handler are exactly its       *)
(* suspension points.  Two awaits with no read or write of program state   *)
(* between them (two Telegram sends in a row) are one suspension point.    *)
(* Telegram sends are taken to succeed; database writes and question       *)
(* generation can fail as the code's except-branches expect (outcomes is   *)
(* the set of results a database write may have in the run).               *)
(*                                                                         *)
(* Spec dispatches updates the way main() builds the Application (no       *)
(* concurrent_updates: one update is handled at a time).  SpecConcurrent   *)
(* lets answer callbacks of the user overlap at their suspension points.   *)
(***************************************************************************)
EXTENDS Integers, Sequences, FiniteSets, TLC

(***************************************************************************)
(* Bounds of the model.                                                    *)
(***************************************************************************)
\* questions per quiz (QUIZ_QUESTION_COUNT is 20 in the source)
NumQuestions == 2
\* answer handlers that may be in flight together in SpecConcurrent
MaxInFlight == 2
\* the clock stops here (hours)
MaxNow == 24
\* hours added by one Tick
TickHours == 24
\* the user stops starting quizzes and answering once this many sessions are logged
MaxCommits == 2
\* answer callbacks dispatched while another one is still being handled (SpecConcurrent)
MaxOverlaps == 1
\* question generation succeeds at most this many times
MaxSessions == 2
\* questions asked of the model in one request (20 in the source)
BatchSize == 2
\* build_topic_sequence is asked for 1 .. MaxPlan topics
MaxPlan == 9
\* random.shuffle may leave a list of up to MaxShuffle items in any order; of
\* the orders of a longer list two are followed
MaxShuffle == 3
\* a topic_memory row is observed until its review_count is MaxReviews
MaxReviews == 7

(***************************************************************************)
(* Program constants.                                                      *)
(***************************************************************************)
PAUSED_SESSION_TTL_HOURS == 24
\* attempts of _generate_questions_openai (OPENAI_MAX_ATTEMPTS defaults to 3)
OPENAI_MAX_ATTEMPTS == 2

\* the first six of the 21 topics
MASTER_TOPICS == <<"Verbs", "PastTense", "FutureTense", "Negation", "Pronouns", "Articles">>
QuestionTypes == <<"ru_to_gr", "fill_blank">>

\* date of a timestamp given in hours
DateOf(t) == t \div 24

\* date.today() when build_topic_sequence runs, as a day number
Today == 20

(***************************************************************************)
(* Question batches handed over by generate_questions.                     *)
(* A question is shown by its topic, type and correctIndex; the texts are  *)
(* never read by the session engine apart from being displayed.            *)
(***************************************************************************)
Question(b, i) ==
    [topic        |-> IF b = 1 THEN MASTER_TOPICS[((i - 1) % 2) + 1] ELSE MASTER_TOPICS[2],
     type         |-> QuestionTypes[((i + b) % 2) + 1],
     correctIndex |-> (i + b) % 4]

Batch(b) == [i \in 1..NumQuestions |-> Question(b, i)]

GeneratedBatches == {Batch(1), Batch(2)}

\* option indices the user presses (ans_0 .. ans_3 exist)
SampleSelections == {0, 2}

(***************************************************************************)
(* json.dumps / json.loads as used by the paused-session persistence.      *)
(***************************************************************************)
JsonDumps(v) == <<"json", v>>
JsonLoads(s) == s[2]

(***************************************************************************)
(* Small helpers.                                                          *)
(***************************************************************************)
Min(a, b) == IF a < b THEN a ELSE b
Max(a, b) == IF a > b THEN a ELSE b

RECURSIVE CountCorrect(_)
CountCorrect(as) ==
    IF as = <<>> THEN 0
    ELSE (IF as[1].correct THEN 1 ELSE 0) + CountCorrect(Tail(as))

\* f with f[k] set to v, k being added to the domain when it is new
Upsert(f, k, v) == [x \in DOMAIN f \cup {k} |-> IF x = k THEN v ELSE f[x]]

EmptyTable == [x \in {} |-> 0]

(***************************************************************************)
(* Exact arithmetic for topic_memory.stability, a pair <<n, d>> standing    *)
(* for n/d with d a power of 5 (the factors are 1.4 = 7/5 and 0.6 = 3/5).  *)
(* mastery is kept in hundredths.                                          *)
(***************************************************************************)
RECURSIVE Norm(_)
Norm(x) == IF x[2] > 1 /\ x[1] % 5 = 0 THEN Norm(<<x[1] \div 5, x[2] \div 5>>) ELSE x

RMul(x, a, b) == Norm(<<x[1] * a, x[2] * b>>)
RLess(x, y) == x[1] * y[2] < y[1] * x[2]
RMax(x, y) == IF RLess(x, y) THEN y ELSE x
RMin(x, y) == IF RLess(y, x) THEN y ELSE x
\* round(): no value n/d with d a power of 5 lies half-way between two integers
RRound(x) == (2 * x[1] + x[2]) \div (2 * x[2])

(***************************************************************************)
(* _update_topic_memory_for_answer: the new topic_memory table.            *)
(***************************************************************************)
DefaultMemory ==
    [mastery |-> 25, stability |-> <<1, 1>>, review_count |-> 0, lapses |-> 0]

\* the update that counts every answer as a lapse
UpdateTopicMemoryLapseAlways(memory, topic, correct, today) ==
    LET row == IF topic \in DOMAIN memory
               THEN [mastery      |-> memory[topic].mastery,
                     stability    |-> memory[topic].stability,
                     review_count |-> memory[topic].review_count,
                     lapses       |-> memory[topic].lapses]
               ELSE DefaultMemory
        mastery   == IF correct THEN Min(100, row.mastery + 8)
                                ELSE Max(0, row.mastery - 12)
        stability == IF correct
                     THEN RMin(<<45, 1>>, RMax(<<1, 1>>, RMul(row.stability, 7, 5)))
                     ELSE RMax(<<1, 1>>, RMul(row.stability, 3, 5))
    IN  Upsert(memory, topic,
               [mastery      |-> mastery,
                stability    |-> stability,
                due_at       |-> today + Max(1, RRound(stability)),
                last_seen    |-> today,
                review_count |-> row.review_count + (IF correct THEN 1 ELSE 0),
                lapses       |-> row.lapses + 1])

\* the update without the min / max around mastery and stability
UpdateTopicMemoryUnclamped(memory, topic, correct, today) ==
    LET row == IF topic \in DOMAIN memory
               THEN [mastery      |-> memory[topic].mastery,
                     stability    |-> memory[topic].stability,
                     review_count |-> memory[topic].review_count,
                     lapses       |-> memory[topic].lapses]
               ELSE DefaultMemory
        mastery   == IF correct THEN row.mastery + 8 ELSE row.mastery - 12
        stability == IF correct THEN RMul(row.stability, 7, 5) ELSE RMul(row.stability, 3, 5)
        lapses    == IF correct THEN row.lapses ELSE row.lapses + 1
    IN  Upsert(memory, topic,
               [mastery      |-> mastery,
                stability    |-> stability,
                due_at       |-> today + Max(1, RRound(stability)),
                last_seen    |-> today,
                review_count |-> row.review_count + 1,
                lapses       |-> lapses])

UpdateTopicMemoryForAnswer(memory, topic, correct, today) ==
    LET row == IF topic \in DOMAIN memory
               THEN [mastery      |-> memory[topic].mastery,
                     stability    |-> memory[topic].stability,
                     review_count |-> memory[topic].review_count,
                     lapses       |-> memory[topic].lapses]
               ELSE DefaultMemory
        mastery   == IF correct THEN Min(100, row.mastery + 8)
                                ELSE Max(0, row.mastery - 12)
        stability == IF correct
                     THEN RMin(<<45, 1>>, RMax(<<1, 1>>, RMul(row.stability, 7, 5)))
                     ELSE RMax(<<1, 1>>, RMul(row.stability, 3, 5))
        lapses    == IF correct THEN row.lapses ELSE row.lapses + 1
    IN  Upsert(memory, topic,
               [mastery      |-> mastery,
                stability    |-> stability,
                due_at       |-> today + Max(1, RRound(stability)),
                last_seen    |-> today,
                review_count |-> row.review_count + 1,
                lapses       |-> lapses])

(***************************************************************************)
(* The durable tables written by _save_all and wiped by _clear_all.        *)
(* quiz_sessions and answers are row lists; a session's id is its position *)
(* in quiz_sessions (both tables are emptied together, so an id never      *)
(* names two sessions in one state).  sid is not a column: it records      *)
(* which generated session a quiz_sessions row came from (see NewSession). *)
(***************************************************************************)
EmptyDb ==
    [quiz_sessions |-> <<>>, answers |-> <<>>,
     topic_stats |-> EmptyTable, topic_memory |-> EmptyTable]

\* the statements _save_all runs, in order, for this answers list
RECURSIVE PerAnswerStatements(_, _)
PerAnswerStatements(k, n) ==
    IF k > n THEN <<>>
    ELSE <<[op |-> "upsert_stats", k |-> k], [op |-> "update_memory", k |-> k]>>
         \o PerAnswerStatements(k + 1, n)

SaveAllStatements(as) ==
    <<[op |-> "insert_session", k |-> 0], [op |-> "insert_answers", k |-> 0]>>
    \o PerAnswerStatements(1, Len(as))

\* the upsert that leaves total alone on a miss
UpsertTopicStatsHitsOnly(stats, topic, correct, today) ==
    IF topic \in DOMAIN stats
    THEN Upsert(stats, topic,
                [correct   |-> stats[topic].correct + 1,
                 total     |-> stats[topic].total + (IF correct THEN 1 ELSE 0),
                 last_seen |-> today])
    ELSE Upsert(stats, topic,
                [correct   |-> 1,
                 total     |-> IF correct THEN 1 ELSE 0,
                 last_seen |-> today])

UpsertTopicStats(stats, topic, correct, today) ==
    IF topic \in DOMAIN stats
    THEN Upsert(stats, topic,
                [correct   |-> stats[topic].correct + (IF correct THEN 1 ELSE 0),
                 total     |-> stats[topic].total + 1,
                 last_seen |-> today])
    ELSE Upsert(stats, topic,
                [correct   |-> IF correct THEN 1 ELSE 0,
                 total     |-> 1,
                 last_seen |-> today])

ApplyStatement(d, stmt, as, today, sid) ==
    CASE stmt.op = "insert_session" ->
           [d EXCEPT !.quiz_sessions =
               Append(@, [session_date    |-> today,
                          correct_answers |-> CountCorrect(as),
                          total_questions |-> Len(as),
                          sid             |-> sid])]
      [] stmt.op = "insert_answers" ->
           [d EXCEPT !.answers =
               @ \o [k \in 1..Len(as) |->
                       [session_id |-> Len(d.quiz_sessions),
                        topic      |-> as[k].topic,
                        type       |-> as[k].type,
                        correct    |-> as[k].correct]]]
      [] stmt.op = "upsert_stats" ->
           [d EXCEPT !.topic_stats =
               UpsertTopicStats(@, as[stmt.k].topic, as[stmt.k].correct, today)]
      [] stmt.op = "update_memory" ->
           [d EXCEPT !.topic_memory =
               UpdateTopicMemoryForAnswer(@, as[stmt.k].topic, as[stmt.k].correct, today)]

RECURSIVE ApplyStatements(_, _, _, _, _)
ApplyStatements(d, stmts, as, today, sid) ==
    IF stmts = <<>> THEN d
    ELSE ApplyStatements(ApplyStatement(d, Head(stmts), as, today, sid),
                         Tail(stmts), as, today, sid)

\* the whole effect of one committed _save_all
SaveAll(d, as, today, sid) == ApplyStatements(d, SaveAllStatements(as), as, today, sid)

\* _save_all with its statements run on the bare connection
NoTransaction == FALSE

\* "async with conn.transaction()": the statements of _save_all become durable
\* together at commit and not one by one
UseTransaction == TRUE

(***************************************************************************)
(* paused_sessions: at most one row for the user (primary key user_id).    *)
(***************************************************************************)
\* the row written without the answers list
PausedRowDropsAnswers(session, t) ==
    [questions     |-> JsonDumps(session.questions),
     current_idx   |-> session.current,
     answers       |-> JsonDumps(<<>>),
     session_dates |-> JsonDumps(session.session_dates),
     expires_at    |-> t + PAUSED_SESSION_TTL_HOURS,
     sid           |-> session.sid]

\* the row written with expires_at = NOW()
PausedRowNoTtl(session, t) ==
    [questions     |-> JsonDumps(session.questions),
     current_idx   |-> session.current,
     answers       |-> JsonDumps(session.answers),
     session_dates |-> JsonDumps(session.session_dates),
     expires_at    |-> t,
     sid           |-> session.sid]

PausedRow(session, t) ==
    [questions     |-> JsonDumps(session.questions),
     current_idx   |-> session.current,
     answers       |-> JsonDumps(session.answers),
     session_dates |-> JsonDumps(session.session_dates),
     expires_at    |-> t + PAUSED_SESSION_TTL_HOURS,
     sid           |-> session.sid]

\* INSERT .. ON CONFLICT (user_id) DO NOTHING
SavePausedSessionInsertOnly(table, session, t) ==
    IF table = <<>> THEN <<PausedRow(session, t)>> ELSE table

\* _save_paused_session: INSERT .. ON CONFLICT (user_id) DO UPDATE
SavePausedSession(table, session, t) == <<PausedRow(session, t)>>

\* a lookup that finds no row
LoadPausedSessionNone(table, t) == <<>>

\* _load_paused_session that does not read the session_dates column
LoadPausedSessionNoDates(table, t) ==
    IF table # <<>> /\ table[1].expires_at > t
    THEN <<[questions     |-> JsonLoads(table[1].questions),
            current       |-> table[1].current_idx,
            answers       |-> JsonLoads(table[1].answers),
            awaiting      |-> TRUE,
            session_dates |-> <<>>,
            unsaved       |-> FALSE,
            sid           |-> table[1].sid]>>
    ELSE <<>>

\* _load_paused_session: <<>> for None, else <<the session dict>>
LoadPausedSession(table, t) ==
    IF table # <<>> /\ table[1].expires_at > t
    THEN <<[questions     |-> JsonLoads(table[1].questions),
            current       |-> table[1].current_idx,
            answers       |-> JsonLoads(table[1].answers),
            awaiting      |-> TRUE,
            session_dates |-> JsonLoads(table[1].session_dates),
            unsaved       |-> FALSE,
            sid           |-> table[1].sid]>>
    ELSE <<>>

\* _delete_paused_session
DeletePausedSession(table) == <<>>

\* _load_compact_data: SELECT DISTINCT session_date .. ORDER BY session_date
RECURSIVE SortedSeq(_)
SortedSeq(S) ==
    IF S = {} THEN <<>>
    ELSE LET m == CHOOSE x \in S : \A y \in S : x <= y
         IN  <<m>> \o SortedSeq(S \ {m})

DistinctDates(rows) == SortedSeq({rows[i].session_date : i \in 1..Len(rows)})

(***************************************************************************)
(* State.                                                                  *)
(***************************************************************************)
VARIABLES
    now,              \* wall clock, hours
    isOwner,          \* the user's username is OWNER_USERNAME
    user_sessions,    \* 0: user_id not in user_sessions; else the address of its dict
    heap,             \* address -> session dict
    paused_sessions,  \* table paused_sessions: <<>> or <<row>>
    db,               \* tables quiz_sessions, answers, topic_stats, topic_memory
    handlers,         \* slot -> coroutine of an update being handled
    presented,        \* question indices of the question messages sent so far
    promptShown,      \* the resume / restart keyboard has been sent
    lastReply,        \* kind of the last message or callback text sent to the user
    overlaps,         \* answer callbacks dispatched so far while another was in flight
    generated,        \* batches question generation has returned so far
    lastLog           \* kind of the last error line printed to the log

\* the validator and the finalizer applied to a list of questions
VARIABLES
    vquestions,       \* the list handed to _collect_question_errors / _finalize_questions
    vstage,           \* "idle", "input", "validated", "finalized"
    verrors,          \* the dict _collect_question_errors returned
    vfinalized        \* what _finalize_questions did: the ValueError or the list returned

\* _generate_questions_openai
VARIABLES
    required_topics,  \* the plan handed over by _start_new_quiz
    parsed,           \* the list being repaired
    attempt,          \* 1 .. OPENAI_MAX_ATTEMPTS
    repair_round,     \* round of the repair loop that is awaiting its answer
    gpc,              \* where the coroutine is: "idle", "request", "repair",
                      \* "topic_repair", "finalize", "returned", "raised", "cancelled"
    returned,         \* the list returned to _start_new_quiz
    repaired,         \* the list the latest _repair_questions_openai call returned,
                      \* <<>> outside the repair loops
    last_error,       \* the cause of the latest failed attempt, "none" before one
    error             \* the exception that left the function: its kind and the
                      \* failure it reports; NoError while none did

\* build_topic_sequence
VARIABLES
    sched,            \* the call: stats, session_dates, topic_memory, total_questions
    topic_sequence,   \* the list returned
    previous_sequence, \* the list the call before returned on the same arguments
    spc               \* "idle", "input", "built" / "built_again" (src/bot.py),
                      \* "topics_built" / "topics_built_again" (src/topics.py)

\* no exception has left _generate_questions_openai
NoError == [kind |-> "none", cause |-> "none"]

sessionVars == <<now, isOwner, user_sessions, heap, paused_sessions, db, handlers,
                 presented, promptShown, lastReply, overlaps, generated, lastLog>>
validationVars == <<vquestions, vstage, verrors, vfinalized>>
generationVars == <<required_topics, parsed, attempt, repair_round, gpc, returned,
                    repaired, last_error, error>>
schedulerVars == <<sched, topic_sequence, previous_sequence, spc>>
contentVars == <<validationVars, generationVars, schedulerVars>>

vars == <<sessionVars, contentVars>>

Slots == 1..MaxInFlight
Addresses == 1..(MaxInFlight + 1)

\* a handler slot: kind and pc say where the coroutine is suspended; the rest
\* are its local variables
Idle ==
    [kind |-> "idle", pc |-> "idle", session |-> 0, selected |-> 0, target |-> 0,
     q |-> 0, dates |-> <<>>, executed |-> 0, saved |-> FALSE, paused |-> FALSE,
     sent |-> 0]

\* The dict _start_new_quiz builds.  Two fields are not in the code's dict:
\* unsaved (the latest _save_paused_session of this dict has not succeeded) and
\* sid (the number of the generation that produced the questions; a generated
\* batch is not produced twice).
NewSession(questions, dates, sid) ==
    [questions     |-> questions,
     current       |-> 0,
     answers       |-> <<>>,
     awaiting      |-> TRUE,
     session_dates |-> dates,
     unsaved       |-> TRUE,
     sid           |-> sid]

\* the state after the module has been loaded and main() has built the Application
SessionInit ==
    /\ now = 0
    /\ isOwner \in BOOLEAN
    /\ user_sessions = 0
    /\ heap = EmptyTable
    /\ paused_sessions = <<>>
    /\ db = EmptyDb
    /\ handlers = [s \in Slots |-> Idle]
    /\ presented = {}
    /\ promptShown = FALSE
    /\ lastReply = "none"
    /\ overlaps = 0
    /\ generated = 0
    /\ lastLog = "none"

\* no question list is being validated
ValidationIdle ==
    /\ vquestions = <<>>
    /\ vstage = "idle"
    /\ verrors = [x \in {} |-> 0]
    /\ vfinalized = [raised |-> "none", questions |-> <<>>]

\* build_topic_sequence is not running
SchedulerIdle ==
    /\ sched = [stats |-> <<>>, session_dates |-> <<>>, topic_memory |-> <<>>,
                total_questions |-> 0]
    /\ topic_sequence = <<>>
    /\ previous_sequence = <<>>
    /\ spc = "idle"

\* the session engine takes the batch from GeneratedBatches: the generator, the
\* validator and the scheduler have their own specifications
ContentIdle ==
    /\ ValidationIdle
    /\ SchedulerIdle
    /\ required_topics = <<>>
    /\ parsed = <<>>
    /\ attempt = 0
    /\ repair_round = 0
    /\ gpc = "idle"
    /\ returned = <<>>
    /\ repaired = <<>>
    /\ last_error = "none"
    /\ error = NoError

Init == SessionInit /\ ContentIdle

(***************************************************************************)
(* Dispatch of updates.                                                    *)
(***************************************************************************)
AllIdle == \A s \in Slots : handlers[s] = Idle
FreeSlots == {s \in Slots : handlers[s] = Idle}
FreeSlot == CHOOSE s \in FreeSlots : \A r \in FreeSlots : s <= r

\* the user goes on starting quizzes and pressing buttons
UserActive == Len(db.quiz_sessions) < MaxCommits

\* main(): Application.builder()...build() without concurrent_updates handles one
\* update at a time.  With concurrent = TRUE answer callbacks may overlap.
CanDispatch(kind, concurrent) ==
    IF concurrent /\ kind = "answer"
    THEN /\ FreeSlots # {}
         /\ \A s \in Slots : handlers[s].kind \in {"idle", "answer"}
         /\ AllIdle \/ overlaps < MaxOverlaps
    ELSE AllIdle

\* dicts no variable refers to any more are dropped
Collect(hp, us, hs) ==
    [a \in {x \in DOMAIN hp : x = us \/ \E s \in Slots : hs[s].session = x} |-> hp[a]]

\* the address of the dict handler s is about to create and bind: the lowest one
\* that no other coroutine still refers to
HeldByOthers(s) == {handlers[r].session : r \in Slots \ {s}}
NewAddress(s) ==
    CHOOSE a \in Addresses : a \notin HeldByOthers(s) /\ \A b \in 1..(a - 1) : b \in HeldByOthers(s)

\* the in-memory effect of a step: handler slots, user_sessions, heap
Memory(hs, us, hp) ==
    /\ handlers' = hs
    /\ user_sessions' = us
    /\ heap' = Collect(hp, us, hs)

Finished(s) == [handlers EXCEPT ![s] = Idle]

\* send_question: reads user_sessions[user_id] and sends the current question
CanSendQuestion(us, hp) == us # 0 /\ hp[us].current < Len(hp[us].questions)

SendQuestion(us, hp) ==
    IF CanSendQuestion(us, hp)
    THEN /\ presented' = presented \cup {hp[us].current}
         /\ lastReply' = "question"
    ELSE \* KeyError / IndexError: the handler ends with the exception
         /\ UNCHANGED <<presented, lastReply>>

(***************************************************************************)
(* start_quiz (/quiz, menu_quiz).                                          *)
(***************************************************************************)
BeginStartQuiz(concurrent) ==
    /\ UserActive
    /\ CanDispatch("quiz", concurrent)
    /\ Memory([handlers EXCEPT ![FreeSlot] = [Idle EXCEPT !.kind = "quiz", !.pc = "quiz_load"]],
              user_sessions, heap)
    /\ UNCHANGED <<now, isOwner, paused_sessions, db, presented, promptShown, lastReply, overlaps, generated, lastLog, contentVars>>

\* start_quiz without the owner branch: a paused session is always resumed
StartQuizLoadedNoOwnerBranch(s) ==
    /\ handlers[s].pc = "quiz_load"
    /\ LET paused == LoadPausedSession(paused_sessions, now)
       IN  IF paused # <<>>
           THEN /\ promptShown' = promptShown
                /\ lastReply' = "resuming"
                /\ Memory([handlers EXCEPT ![s].pc = "resume_send", ![s].paused = TRUE,
                                           ![s].session = NewAddress(s)],
                          NewAddress(s), Upsert(heap, NewAddress(s), paused[1]))
           ELSE /\ promptShown' = promptShown
                /\ lastReply' = "preparing"
                /\ Memory([handlers EXCEPT ![s].pc = "new_data"], user_sessions, heap)
    /\ UNCHANGED <<now, isOwner, paused_sessions, db, presented, overlaps, generated, lastLog, contentVars>>

\* start_quiz after "paused = await _load_paused_session(user_id)"
StartQuizLoaded(s) ==
    /\ handlers[s].pc = "quiz_load"
    /\ LET paused == LoadPausedSession(paused_sessions, now)
       IN  IF paused # <<>>
           THEN IF isOwner
                THEN /\ promptShown' = TRUE
                     /\ lastReply' = "paused_prompt"
                     /\ Memory(Finished(s), user_sessions, heap)
                ELSE /\ promptShown' = promptShown
                     /\ lastReply' = "resuming"
                     /\ Memory([handlers EXCEPT ![s].pc = "resume_send", ![s].paused = TRUE,
                                                ![s].session = NewAddress(s)],
                               NewAddress(s), Upsert(heap, NewAddress(s), paused[1]))
           ELSE /\ promptShown' = promptShown
                /\ lastReply' = "preparing"
                /\ Memory([handlers EXCEPT ![s].pc = "new_data"], user_sessions, heap)
    /\ UNCHANGED <<now, isOwner, paused_sessions, db, presented, overlaps, generated, lastLog, contentVars>>

\* start_quiz / quiz_resume: send_question after the "resuming" message
ResumeSend(s) ==
    /\ handlers[s].pc = "resume_send"
    /\ SendQuestion(user_sessions, heap)
    /\ Memory(Finished(s), user_sessions, heap)
    /\ UNCHANGED <<now, isOwner, paused_sessions, db, promptShown, overlaps, generated, lastLog, contentVars>>

(***************************************************************************)
(* _start_new_quiz.                                                        *)
(***************************************************************************)
\* after _load_compact_data, _load_topic_memory, _load_profile
NewQuizDataLoaded(s) ==
    /\ handlers[s].pc = "new_data"
    /\ Memory([handlers EXCEPT ![s].pc = "new_gen",
                               ![s].dates = DistinctDates(db.quiz_sessions)],
              user_sessions, heap)
    /\ UNCHANGED <<now, isOwner, paused_sessions, db, presented, promptShown, lastReply, overlaps, generated, lastLog, contentVars>>

\* asyncio.wait_for(generate_questions(..)) raised asyncio.TimeoutError
GenerationTimeout(s) ==
    /\ handlers[s].pc = "new_gen"
    /\ lastLog' = "quiz_timeout"
    /\ lastReply' = "generation_timeout"
    /\ Memory(Finished(s), user_sessions, heap)
    /\ UNCHANGED <<now, isOwner, paused_sessions, db, presented, promptShown, overlaps, generated, contentVars>>

\* the session dict bound before generate_questions is awaited
GenerationFailedAfterBinding(s) ==
    /\ handlers[s].pc = "new_gen"
    /\ lastLog' = "quiz_error"
    /\ lastReply' = "generation_error"
    /\ Memory(Finished(s), NewAddress(s),
              Upsert(heap, NewAddress(s), NewSession(<<>>, handlers[s].dates, generated + 1)))
    /\ UNCHANGED <<now, isOwner, paused_sessions, db, presented, promptShown, overlaps, generated, contentVars>>

\* generate_questions raised (validation exhausted, API error)
GenerationFailed(s) ==
    /\ handlers[s].pc = "new_gen"
    /\ lastLog' = "quiz_error"
    /\ lastReply' = "generation_error"
    /\ Memory(Finished(s), user_sessions, heap)
    /\ UNCHANGED <<now, isOwner, paused_sessions, db, presented, promptShown, overlaps, generated, contentVars>>

\* generate_questions returned a batch: the session dict is built and bound
GenerationSucceeded(s) ==
    /\ handlers[s].pc = "new_gen"
    /\ generated < MaxSessions
    /\ generated' = generated + 1
    /\ \E questions \in GeneratedBatches :
         Memory([handlers EXCEPT ![s].pc = "new_save", ![s].session = NewAddress(s)],
                NewAddress(s),
                Upsert(heap, NewAddress(s),
                       NewSession(questions, handlers[s].dates, generated + 1)))
    /\ UNCHANGED <<now, isOwner, paused_sessions, db, presented, promptShown, lastReply, overlaps, lastLog, contentVars>>

\* _start_new_quiz after "await _save_paused_session(user_id, session)"
NewQuizSaved(s, outcomes) ==
    /\ handlers[s].pc = "new_save"
    /\ \E ok \in outcomes :
         IF ok
         THEN /\ paused_sessions' =
                   SavePausedSession(paused_sessions, heap[handlers[s].session], now)
              /\ lastReply' = lastReply
              /\ lastLog' = lastLog
              /\ Memory([handlers EXCEPT ![s].pc = "new_send"], user_sessions,
                        [heap EXCEPT ![handlers[s].session].unsaved = FALSE])
         ELSE /\ paused_sessions' = paused_sessions
              /\ lastReply' = "error"
              /\ lastLog' = "quiz_error"
              /\ Memory(Finished(s), user_sessions, heap)
    /\ UNCHANGED <<now, isOwner, db, presented, promptShown, overlaps, generated, contentVars>>

\* _start_new_quiz: send_question after msg.delete()
NewQuizSend(s) ==
    /\ handlers[s].pc = "new_send"
    /\ SendQuestion(user_sessions, heap)
    /\ Memory(Finished(s), user_sessions, heap)
    /\ UNCHANGED <<now, isOwner, paused_sessions, db, promptShown, overlaps, generated, lastLog, contentVars>>

(***************************************************************************)
(* handle_answer: quiz_resume and quiz_restart (keyboard sent to the owner) *)
(***************************************************************************)
BeginResume(concurrent) ==
    /\ UserActive
    /\ promptShown
    /\ CanDispatch("resume", concurrent)
    /\ Memory([handlers EXCEPT ![FreeSlot] = [Idle EXCEPT !.kind = "resume", !.pc = "resume_load"]],
              user_sessions, heap)
    /\ UNCHANGED <<now, isOwner, paused_sessions, db, presented, promptShown, lastReply, overlaps, generated, lastLog, contentVars>>

\* quiz_resume without the else branch: nothing happens when no session is found
ResumeLoadedNoFallback(s) ==
    /\ handlers[s].pc = "resume_load"
    /\ LET paused == LoadPausedSession(paused_sessions, now)
       IN  IF paused # <<>>
           THEN /\ lastReply' = "resuming"
                /\ Memory([handlers EXCEPT ![s].pc = "resume_send", ![s].paused = TRUE,
                                           ![s].session = NewAddress(s)],
                          NewAddress(s), Upsert(heap, NewAddress(s), paused[1]))
           ELSE /\ lastReply' = lastReply
                /\ Memory(Finished(s), user_sessions, heap)
    /\ UNCHANGED <<now, isOwner, paused_sessions, db, presented, promptShown, overlaps, generated, lastLog, contentVars>>

\* quiz_resume after "paused = await _load_paused_session(user_id)"
ResumeLoaded(s) ==
    /\ handlers[s].pc = "resume_load"
    /\ LET paused == LoadPausedSession(paused_sessions, now)
       IN  IF paused # <<>>
           THEN /\ lastReply' = "resuming"
                /\ Memory([handlers EXCEPT ![s].pc = "resume_send", ![s].paused = TRUE,
                                           ![s].session = NewAddress(s)],
                          NewAddress(s), Upsert(heap, NewAddress(s), paused[1]))
           ELSE /\ lastReply' = "preparing"
                /\ Memory([handlers EXCEPT ![s].pc = "new_data"], user_sessions, heap)
    /\ UNCHANGED <<now, isOwner, paused_sessions, db, presented, promptShown, overlaps, generated, lastLog, contentVars>>

BeginRestart(concurrent) ==
    /\ UserActive
    /\ promptShown
    /\ CanDispatch("restart", concurrent)
    /\ Memory([handlers EXCEPT ![FreeSlot] = [Idle EXCEPT !.kind = "restart", !.pc = "restart_delete"]],
              user_sessions, heap)
    /\ UNCHANGED <<now, isOwner, paused_sessions, db, presented, promptShown, lastReply, overlaps, generated, lastLog, contentVars>>

\* quiz_restart after "await _delete_paused_session(user_id)"; a failed delete
\* raises out of the handler
RestartDeleted(s, outcomes) ==
    /\ handlers[s].pc = "restart_delete"
    /\ \E ok \in outcomes :
         IF ok
         THEN /\ paused_sessions' = DeletePausedSession(paused_sessions)
              /\ lastReply' = "preparing"
              /\ Memory([handlers EXCEPT ![s].pc = "new_data"], 0, heap)
         ELSE /\ paused_sessions' = paused_sessions
              /\ lastReply' = lastReply
              /\ Memory(Finished(s), user_sessions, heap)
    /\ UNCHANGED <<now, isOwner, db, presented, promptShown, overlaps, generated, lastLog, contentVars>>

(***************************************************************************)
(* handle_answer: quiz answer (callback data ans_<i>).                     *)
(* target is the question index of the message whose button was pressed;   *)
(* the callback data carries only the option index, so the code never sees *)
(* target.                                                                 *)
(***************************************************************************)
\* from the top of the "Quiz answer" branch to its first await
BeginAnswer(concurrent) ==
    /\ UserActive
    /\ CanDispatch("answer", concurrent)
    /\ \E target \in presented, selected \in SampleSelections :
         LET h == [Idle EXCEPT !.kind = "answer", !.target = target, !.selected = selected]
         IN  IF user_sessions = 0
             THEN \* await _load_paused_session(user_id)
                  /\ Memory([handlers EXCEPT ![FreeSlot] = [h EXCEPT !.pc = "answer_load"]],
                            user_sessions, heap)
                  /\ lastReply' = lastReply
             ELSE IF ~heap[user_sessions].awaiting
             THEN \* "if not session.get('awaiting')": acknowledged, nothing else
                  /\ Memory(handlers, user_sessions, heap)
                  /\ lastReply' = "ack_only"
             ELSE \* await query.answer()
                  /\ Memory([handlers EXCEPT ![FreeSlot] =
                                [h EXCEPT !.pc = "answer_ack", !.session = user_sessions]],
                            user_sessions, heap)
                  /\ lastReply' = lastReply
    /\ overlaps' = IF AllIdle THEN overlaps ELSE overlaps + 1
    /\ UNCHANGED <<now, isOwner, paused_sessions, db, presented, promptShown, generated, lastLog, contentVars>>

\* after "paused = await _load_paused_session(user_id)" up to "await query.answer()"
AnswerLoaded(s) ==
    /\ handlers[s].pc = "answer_load"
    /\ LET paused == LoadPausedSession(paused_sessions, now)
       IN  IF paused # <<>>
           THEN /\ lastReply' = lastReply
                /\ Memory([handlers EXCEPT ![s].pc = "answer_ack", ![s].paused = TRUE,
                                           ![s].session = NewAddress(s)],
                          NewAddress(s), Upsert(heap, NewAddress(s), paused[1]))
           ELSE /\ lastReply' = "session_expired"
                /\ Memory(Finished(s), user_sessions, heap)
    /\ UNCHANGED <<now, isOwner, paused_sessions, db, presented, promptShown, overlaps, generated, lastLog, contentVars>>

\* AnswerScored with every answer recorded as correct
AnswerScoredAlwaysCorrect(s) ==
    /\ handlers[s].pc = "answer_ack"
    /\ LET a == handlers[s].session
           d == heap[a]
       IN  IF d.current < Len(d.questions)
           THEN LET q == d.questions[d.current + 1]
                IN  /\ Memory([handlers EXCEPT ![s].pc = "answer_reply", ![s].q = d.current],
                              user_sessions,
                              [heap EXCEPT ![a].awaiting = FALSE,
                                           ![a].answers =
                                               Append(@, [topic   |-> q.topic,
                                                          type    |-> q.type,
                                                          correct |-> TRUE])])
                    /\ lastReply' = "answer_result"
           ELSE /\ Memory(Finished(s), user_sessions, [heap EXCEPT ![a].awaiting = FALSE])
                /\ lastReply' = lastReply
    /\ UNCHANGED <<now, isOwner, paused_sessions, db, presented, promptShown, overlaps, generated, lastLog, contentVars>>

\* lines 1888-1896: awaiting = False, q = questions[current], append the answer;
\* then the keyboard is removed and the result text is sent
AnswerScored(s) ==
    /\ handlers[s].pc = "answer_ack"
    /\ LET a == handlers[s].session
           d == heap[a]
       IN  IF d.current < Len(d.questions)
           THEN LET q == d.questions[d.current + 1]
                IN  /\ Memory([handlers EXCEPT ![s].pc = "answer_reply", ![s].q = d.current],
                              user_sessions,
                              [heap EXCEPT ![a].awaiting = FALSE,
                                           ![a].answers =
                                               Append(@, [topic   |-> q.topic,
                                                          type    |-> q.type,
                                                          correct |-> handlers[s].selected = q.correctIndex])])
                    /\ lastReply' = "answer_result"
           ELSE \* IndexError
                /\ Memory(Finished(s), user_sessions, [heap EXCEPT ![a].awaiting = FALSE])
                /\ lastReply' = lastReply
    /\ UNCHANGED <<now, isOwner, paused_sessions, db, presented, promptShown, overlaps, generated, lastLog, contentVars>>

\* AnswerAdvanced entering finish_quiz after the first answer of any session
AnswerAdvancedCommitsEarly(s) ==
    /\ handlers[s].pc = "answer_reply"
    /\ LET a   == handlers[s].session
           cur == heap[a].current + 1
       IN  IF cur >= 1
           THEN IF user_sessions # 0
                THEN Memory([handlers EXCEPT ![s].pc = "finish_save",
                                             ![s].session = user_sessions,
                                             ![s].executed = 0],
                            user_sessions, [heap EXCEPT ![a].current = cur])
                ELSE Memory(Finished(s), user_sessions, [heap EXCEPT ![a].current = cur])
           ELSE Memory([handlers EXCEPT ![s].pc = "answer_save"], user_sessions,
                       [heap EXCEPT ![a].current = cur, ![a].awaiting = TRUE])
    /\ UNCHANGED <<now, isOwner, paused_sessions, db, presented, promptShown, lastReply, overlaps, generated, lastLog, contentVars>>

\* lines 1926-1930: current += 1, then finish_quiz up to "await save_result" or
\* awaiting = True up to "await _save_paused_session"
AnswerAdvanced(s) ==
    /\ handlers[s].pc = "answer_reply"
    /\ LET a   == handlers[s].session
           cur == heap[a].current + 1
       IN  IF cur >= Len(heap[a].questions)
           THEN IF user_sessions # 0
                THEN \* finish_quiz: session = user_sessions[user_id]
                     Memory([handlers EXCEPT ![s].pc = "finish_save",
                                             ![s].session = user_sessions,
                                             ![s].executed = 0],
                            user_sessions, [heap EXCEPT ![a].current = cur])
                ELSE \* KeyError
                     Memory(Finished(s), user_sessions, [heap EXCEPT ![a].current = cur])
           ELSE Memory([handlers EXCEPT ![s].pc = "answer_save"], user_sessions,
                       [heap EXCEPT ![a].current = cur, ![a].awaiting = TRUE])
    /\ UNCHANGED <<now, isOwner, paused_sessions, db, presented, promptShown, lastReply, overlaps, generated, lastLog, contentVars>>

\* _save_paused_session without the try/except around it: a failure ends the handler
AnswerSavedRaises(s, outcomes) ==
    /\ handlers[s].pc = "answer_save"
    /\ \E ok \in outcomes :
         IF ok
         THEN /\ paused_sessions' =
                   SavePausedSession(paused_sessions, heap[handlers[s].session], now)
              /\ Memory(Finished(s), user_sessions,
                        [heap EXCEPT ![handlers[s].session].unsaved = FALSE])
              /\ SendQuestion(user_sessions, heap)
         ELSE /\ paused_sessions' = paused_sessions
              /\ Memory(Finished(s), user_sessions,
                        [heap EXCEPT ![handlers[s].session].unsaved = TRUE])
              /\ UNCHANGED <<presented, lastReply>>
    /\ UNCHANGED <<now, isOwner, db, promptShown, overlaps, generated, lastLog, contentVars>>

\* lines 1932-1936: _save_paused_session in try/except (a failure is printed),
\* then send_question
AnswerSaved(s, outcomes) ==
    /\ handlers[s].pc = "answer_save"
    /\ \E ok \in outcomes :
         /\ paused_sessions' =
              IF ok THEN SavePausedSession(paused_sessions, heap[handlers[s].session], now)
              ELSE paused_sessions
         /\ lastLog' = IF ok THEN lastLog ELSE "paused_save_error"
         /\ Memory(Finished(s), user_sessions,
                   [heap EXCEPT ![handlers[s].session].unsaved = ~ok])
    /\ SendQuestion(user_sessions, heap)
    /\ UNCHANGED <<now, isOwner, db, promptShown, overlaps, generated, contentVars>>

(***************************************************************************)
(* finish_quiz: save_result -> _save_all, then the session is dropped.     *)
(***************************************************************************)
\* one statement of _save_all ran inside the transaction
SaveAllStatement(s) ==
    /\ handlers[s].pc = "finish_save"
    /\ LET as    == heap[handlers[s].session].answers
           stmts == SaveAllStatements(as)
       IN  /\ handlers[s].executed < Len(stmts)
           /\ db' = IF UseTransaction THEN db
                    ELSE ApplyStatement(db, stmts[handlers[s].executed + 1], as, DateOf(now),
                                        heap[handlers[s].session].sid)
           /\ Memory([handlers EXCEPT ![s].executed = @ + 1], user_sessions, heap)
    /\ UNCHANGED <<now, isOwner, paused_sessions, presented, promptShown, lastReply, overlaps, generated, lastLog, contentVars>>

\* the transaction committed; finish_quiz: del user_sessions[user_id]
SaveAllCommitted(s) ==
    /\ handlers[s].pc = "finish_save"
    /\ LET as == heap[handlers[s].session].answers
       IN  /\ handlers[s].executed = Len(SaveAllStatements(as))
           /\ db' = IF UseTransaction
                    THEN SaveAll(db, as, DateOf(now), heap[handlers[s].session].sid)
                    ELSE db
    /\ Memory([handlers EXCEPT ![s].pc = "finish_delete", ![s].saved = TRUE], 0, heap)
    /\ UNCHANGED <<now, isOwner, paused_sessions, presented, promptShown, lastReply, overlaps, generated, lastLog, contentVars>>

\* the except branch replying with the error alone
SaveAllFailedErrorOnly(s) ==
    /\ handlers[s].pc = "finish_save"
    /\ lastLog' = "save_error"
    /\ lastReply' = "save_error"
    /\ Memory([handlers EXCEPT ![s].pc = "finish_delete", ![s].saved = FALSE], 0, heap)
    /\ UNCHANGED <<now, isOwner, paused_sessions, db, presented, promptShown, overlaps, generated, contentVars>>

\* a statement or the commit failed: the transaction is rolled back and
\* finish_quiz sends the error with the result text (sent counts the result
\* texts this run of finish_quiz has sent), then drops the session
SaveAllFailed(s) ==
    /\ handlers[s].pc = "finish_save"
    /\ lastLog' = "save_error"
    /\ lastReply' = "result_with_save_error"
    /\ Memory([handlers EXCEPT ![s].pc = "finish_delete", ![s].saved = FALSE,
                               ![s].sent = @ + 1], 0, heap)
    /\ UNCHANGED <<now, isOwner, paused_sessions, db, presented, promptShown, overlaps, generated, contentVars>>

\* _delete_paused_session in try/except; on the success path the result text follows
FinishDeleted(s, outcomes) ==
    /\ handlers[s].pc = "finish_delete"
    /\ \E ok \in outcomes :
         paused_sessions' = IF ok THEN DeletePausedSession(paused_sessions) ELSE paused_sessions
    /\ lastReply' = IF handlers[s].saved THEN "result" ELSE lastReply
    /\ Memory(Finished(s), user_sessions, heap)
    /\ UNCHANGED <<now, isOwner, db, presented, promptShown, overlaps, generated, lastLog, contentVars>>

(***************************************************************************)
(* reset_confirm -> clear_history -> _clear_all (one transaction).         *)
(***************************************************************************)
ResetConfirm(concurrent) ==
    /\ CanDispatch("reset", concurrent)
    /\ \E ok \in BOOLEAN :
         IF ok
         THEN /\ db' = EmptyDb
              /\ paused_sessions' = <<>>
              /\ lastReply' = "history_cleared"
         ELSE /\ UNCHANGED <<db, paused_sessions>>
              /\ lastReply' = "clear_failed"
    /\ UNCHANGED <<now, isOwner, user_sessions, heap, handlers, presented, promptShown, overlaps, generated, lastLog, contentVars>>

(***************************************************************************)
(* Environment.                                                            *)
(***************************************************************************)
\* the process is restarted: coroutines and user_sessions are gone, an open
\* transaction is rolled back by the database
ProcessRestart ==
    /\ handlers' = [s \in Slots |-> Idle]
    /\ user_sessions' = 0
    /\ heap' = EmptyTable
    /\ UNCHANGED <<now, isOwner, paused_sessions, db, presented, promptShown, lastReply, overlaps, generated, lastLog, contentVars>>

\* time passes (not inside the transaction of _save_all)
Tick ==
    /\ now + TickHours <= MaxNow
    /\ \A s \in Slots : handlers[s].pc # "finish_save"
    /\ now' = now + TickHours
    /\ UNCHANGED <<isOwner, user_sessions, heap, paused_sessions, db, handlers,
                   presented, promptShown, lastReply, overlaps, generated, lastLog,
                   contentVars>>

HandlerStep(s) ==
    \/ StartQuizLoaded(s)
    \/ ResumeSend(s)
    \/ NewQuizDataLoaded(s)
    \/ GenerationTimeout(s)
    \/ GenerationFailed(s)
    \/ GenerationSucceeded(s)
    \/ NewQuizSaved(s, BOOLEAN)
    \/ NewQuizSend(s)
    \/ ResumeLoaded(s)
    \/ RestartDeleted(s, BOOLEAN)
    \/ AnswerLoaded(s)
    \/ AnswerScored(s)
    \/ AnswerAdvanced(s)
    \/ AnswerSaved(s, BOOLEAN)
    \/ SaveAllStatement(s)
    \/ SaveAllCommitted(s)
    \/ SaveAllFailed(s)
    \/ FinishDeleted(s, BOOLEAN)

Dispatch(concurrent) ==
    \/ BeginStartQuiz(concurrent)
    \/ BeginResume(concurrent)
    \/ BeginRestart(concurrent)
    \/ BeginAnswer(concurrent)
    \/ ResetConfirm(concurrent)

Next ==
    \/ Dispatch(FALSE)
    \/ \E s \in Slots : HandlerStep(s)
    \/ ProcessRestart
    \/ Tick

Spec == Init /\ [][Next]_vars

\* answer callbacks overlapping in a run without faults, restarts or clock steps
ConcurrentStep(s) ==
    \/ StartQuizLoaded(s)
    \/ ResumeSend(s)
    \/ NewQuizDataLoaded(s)
    \/ GenerationSucceeded(s)
    \/ NewQuizSaved(s, {TRUE})
    \/ NewQuizSend(s)
    \/ AnswerLoaded(s)
    \/ AnswerScored(s)
    \/ AnswerAdvanced(s)
    \/ AnswerSaved(s, {TRUE})
    \/ SaveAllStatement(s)
    \/ SaveAllCommitted(s)
    \/ FinishDeleted(s, {TRUE})

NextConcurrent ==
    \/ BeginStartQuiz(TRUE)
    \/ BeginAnswer(TRUE)
    \/ \E s \in Slots : ConcurrentStep(s)

SpecConcurrent == Init /\ [][NextConcurrent]_vars

(***************************************************************************)
(* Question validation and finalization (_collect_question_errors,          *)
(* _finalize_questions).                                                    *)
(*                                                                         *)
(* A text is a sequence of characters; a character is written as a string.  *)
(* "a_acute" is a precomposed accented letter and "acute" the combining     *)
(* mark its decomposition contains.  A JSON value that should be a string,  *)
(* a list or an integer carries a flag saying whether it is one.            *)
(***************************************************************************)
Whitespace == {" "}
Punctuation == {"!", "."}
CombiningMarks == {"acute"}

\* unicodedata.normalize("NFKD", ..) of one character
Nfkd(ch) ==
    CASE ch = "a_acute" -> <<"a", "acute">>
      [] OTHER          -> <<ch>>

\* str.casefold of one character
Casefold(ch) ==
    CASE ch = "N" -> "n"
      [] ch = "A" -> "a"
      [] OTHER    -> ch

RECURSIVE NfkdText(_)
NfkdText(text) ==
    IF text = <<>> THEN <<>> ELSE Nfkd(Head(text)) \o NfkdText(Tail(text))

\* str.split(): the maximal runs of non-whitespace characters (word: the run
\* being read)
RECURSIVE SplitWords(_, _)
SplitWords(text, word) ==
    IF text = <<>>
    THEN IF word = <<>> THEN <<>> ELSE <<word>>
    ELSE IF Head(text) \in Whitespace
         THEN (IF word = <<>> THEN <<>> ELSE <<word>>) \o SplitWords(Tail(text), <<>>)
         ELSE SplitWords(Tail(text), Append(word, Head(text)))

\* " ".join(words)
RECURSIVE JoinWords(_)
JoinWords(words) ==
    IF words = <<>> THEN <<>>
    ELSE IF Len(words) = 1 THEN words[1]
    ELSE words[1] \o <<" ">> \o JoinWords(Tail(words))

\* canonicalize_option without removing punctuation
CanonicalizeOptionKeepPunctuation(option) ==
    LET decomposed == NfkdText(option)
        unmarked   == SelectSeq(decomposed, LAMBDA ch : ch \notin CombiningMarks)
        collapsed  == JoinWords(SplitWords(unmarked, <<>>))
    IN  [i \in 1..Len(collapsed) |-> Casefold(collapsed[i])]

\* canonicalize_option: NFKD, combining marks removed, punctuation removed,
\* whitespace collapsed, casefold
CanonicalizeOption(option) ==
    LET decomposed == NfkdText(option)
        unmarked   == SelectSeq(decomposed, LAMBDA ch : ch \notin CombiningMarks)
        unpunct    == SelectSeq(unmarked, LAMBDA ch : ch \notin Punctuation)
        collapsed  == JoinWords(SplitWords(unpunct, <<>>))
    IN  [i \in 1..Len(collapsed) |-> Casefold(collapsed[i])]

\* not text.strip()
IsBlank(text) == \A i \in 1..Len(text) : text[i] \in Whitespace

REQUIRED_KEYS == {"question", "options", "correctIndex", "explanation", "topic", "type"}
TYPE_LABELS == {"ru_to_gr", "gr_to_ru", "choose_form", "fill_blank"}

JsonStr(text) == [isStr |-> TRUE, text |-> text]
JsonNotStr == [isStr |-> FALSE, text |-> <<>>]
JsonList(items) == [isList |-> TRUE, items |-> items]
JsonNotList == [isList |-> FALSE, items |-> <<>>]
JsonInt(n) == [isInt |-> TRUE, value |-> n]
JsonNotInt == [isInt |-> FALSE, value |-> 0]

\* the first loop of _collect_question_errors: the first rule the question
\* breaks, "none" when it breaks none of them
FieldError(q) ==
    IF ~q.isDict THEN "not_object"
    ELSE IF q.keys # REQUIRED_KEYS THEN "fields"
    ELSE IF ~q.question.isStr \/ IsBlank(q.question.text) THEN "question"
    ELSE IF ~q.explanation.isStr \/ IsBlank(q.explanation.text) THEN "explanation"
    ELSE IF q.type \notin TYPE_LABELS THEN "type"
    ELSE IF ~q.options.isList \/ Len(q.options.items) # 4 THEN "options_count"
    ELSE IF \E i \in 1..4 : ~q.options.items[i].isStr \/ IsBlank(q.options.items[i].text)
         THEN "option_blank"
    ELSE IF ~q.correctIndex.isInt
            \/ ~(0 <= q.correctIndex.value /\ q.correctIndex.value < Len(q.options.items))
         THEN "correct_index"
    ELSE "none"

\* the second loop: len(canonical_opts) != len(set(canonical_opts))
HasDuplicateOptions(q) ==
    LET canonical_opts == [i \in 1..4 |-> CanonicalizeOption(q.options.items[i].text)]
    IN  Len(canonical_opts) # Cardinality({canonical_opts[i] : i \in 1..4})

QuestionError(q) ==
    IF FieldError(q) # "none" THEN FieldError(q)
    ELSE IF HasDuplicateOptions(q) THEN "duplicate_options"
    ELSE "none"

\* _collect_question_errors: {index: reason}, indices from 0
CollectQuestionErrors(qs) ==
    [i \in {j \in 0..(Len(qs) - 1) : QuestionError(qs[j + 1]) # "none"}
        |-> QuestionError(qs[i + 1])]

\* difflib.get_close_matches(topic, MASTER_TOPICS, n=1, cutoff=0.6) for the topic
\* strings of the model: "Verbz" is within the cutoff of "Verbs" (ratio 0.8),
\* "Other" of nothing (ratios 0.4 and 0.31)
CloseMatches(topic) ==
    CASE topic = "Verbz" -> <<"Verbs">>
      [] OTHER           -> <<>>

InMasterTopics(topic) == \E i \in 1..Len(MASTER_TOPICS) : MASTER_TOPICS[i] = topic

\* normalize_topic
NormalizeTopic(topic) ==
    IF InMasterTopics(topic) THEN topic
    ELSE IF CloseMatches(topic) # <<>> THEN CloseMatches(topic)[1]
    ELSE topic

\* list.index(x) from 0
IndexOf(seq, x) == (CHOOSE i \in 1..Len(seq) : seq[i] = x /\ \A j \in 1..(i - 1) : seq[j] # x) - 1

Permutations4 == {p \in [1..4 -> 1..4] : \A i, j \in 1..4 : i # j => p[i] # p[j]}

\* the shuffle loop of _finalize_questions with correctIndex left as it was
ShuffleOptionsKeepIndex(q, perm) ==
    LET options == [i \in 1..4 |-> q.options.items[perm[i]]]
    IN  [q EXCEPT !.options = JsonList(options)]

\* the shuffle loop of _finalize_questions for one question; perm is the order
\* random.shuffle leaves the options in
ShuffleOptions(q, perm) ==
    LET correct_text == q.options.items[q.correctIndex.value + 1]
        options      == [i \in 1..4 |-> q.options.items[perm[i]]]
    IN  [q EXCEPT !.options = JsonList(options),
                  !.correctIndex = JsonInt(IndexOf(options, correct_text))]

\* _finalize_questions; perms[i] is the shuffle of question i.  raised is the
\* reason of the ValueError, "none" when the list is returned.
FinalizeQuestions(qs, perms) ==
    LET errors == CollectQuestionErrors(qs)
    IN  IF DOMAIN errors # {}
        THEN [raised    |-> errors[CHOOSE i \in DOMAIN errors : \A j \in DOMAIN errors : i <= j],
              questions |-> <<>>]
        ELSE [raised    |-> "none",
              questions |-> [i \in 1..Len(qs) |->
                               ShuffleOptions([qs[i] EXCEPT !.topic = NormalizeTopic(@)],
                                              perms[i])]]

(***************************************************************************)
(* Sample inputs of the validator.                                          *)
(***************************************************************************)
\* option texts: "nai" written five ways, and three other words
OptionTexts ==
    { <<"n", "a", "i">>,
      <<"N", "a", "i">>,
      <<"n", "a", "i", "!">>,
      <<"n", "a_acute", "i">>,
      <<" ", "n", "a", "i", " ", ".">>,
      <<"n", "a", " ", " ", "i">>,
      <<"n", "a", " ", "i">>,
      <<"o", "x", "i">>,
      <<"i", "s", "o", "s">>,
      <<" ">> }

SampleOptions == {JsonStr(t) : t \in OptionTexts} \cup {JsonNotStr}

SampleCorrectIndexes == {JsonInt(0), JsonInt(3), JsonInt(4), JsonNotInt}

\* a question that breaks none of the field rules, with the given options
WellFormed(options, correctIndex, topic) ==
    [isDict       |-> TRUE,
     keys         |-> REQUIRED_KEYS,
     question     |-> JsonStr(<<"q">>),
     explanation  |-> JsonStr(<<"e">>),
     type         |-> "ru_to_gr",
     options      |-> options,
     correctIndex |-> correctIndex,
     topic        |-> topic]

\* the same question with one of the fields read before the options broken
FieldDefects == {"not_object", "fields", "question", "explanation", "type"}

WithDefect(q, defect) ==
    CASE defect = "not_object"  -> [q EXCEPT !.isDict = FALSE]
      [] defect = "fields"      -> [q EXCEPT !.keys = REQUIRED_KEYS \ {"explanation"}]
      [] defect = "question"    -> [q EXCEPT !.question = JsonStr(<<" ">>)]
      [] defect = "explanation" -> [q EXCEPT !.explanation = JsonNotStr]
      [] defect = "type"        -> [q EXCEPT !.type = "essay"]
      [] OTHER                  -> q

\* option lists that are not four strings
MalformedOptions ==
    {JsonNotList, JsonList(<<JsonStr(<<"o", "x", "i">>), JsonStr(<<"n", "a", "i">>)>>)}

\* _generate_questions_openai is not running
GenerationIdle ==
    /\ required_topics = <<>>
    /\ parsed = <<>>
    /\ attempt = 0
    /\ repair_round = 0
    /\ gpc = "idle"
    /\ returned = <<>>
    /\ repaired = <<>>
    /\ last_error = "none"
    /\ error = NoError

(***************************************************************************)
(* The validator and the finalizer applied to one question.                 *)
(***************************************************************************)
ValidationInit ==
    /\ SessionInit
    /\ isOwner = FALSE
    /\ GenerationIdle
    /\ SchedulerIdle
    /\ \/ \E o1 \in SampleOptions, o2 \in SampleOptions, o3 \in SampleOptions,
            o4 \in SampleOptions, c \in SampleCorrectIndexes :
              vquestions = <<WellFormed(JsonList(<<o1, o2, o3, o4>>), c, "Verbs")>>
       \/ \E o1 \in SampleOptions, o2 \in SampleOptions, o3 \in SampleOptions,
            o4 \in SampleOptions, defect \in FieldDefects :
              vquestions = <<WithDefect(WellFormed(JsonList(<<o1, o2, o3, o4>>), JsonInt(0), "Verbs"),
                                        defect)>>
       \/ \E options \in MalformedOptions :
              vquestions = <<WellFormed(options, JsonInt(0), "Verbz")>>
    /\ vstage = "input"
    /\ verrors = EmptyTable
    /\ vfinalized = [raised |-> "none", questions |-> <<>>]

\* the orders random.shuffle may leave the options in; it is not called when
\* _finalize_questions raises
Shuffles(qs) ==
    IF DOMAIN CollectQuestionErrors(qs) = {} THEN Permutations4 ELSE {[i \in 1..4 |-> i]}

\* errors = _collect_question_errors(questions)
ValidateQuestions ==
    /\ vstage = "input"
    /\ verrors' = CollectQuestionErrors(vquestions)
    /\ vstage' = "validated"
    /\ UNCHANGED <<vquestions, vfinalized, sessionVars, generationVars, schedulerVars>>

\* _finalize_questions(questions): raises, or returns the list shuffled
FinalizeValidated ==
    /\ vstage = "validated"
    /\ \E perm \in Shuffles(vquestions) :
         vfinalized' = FinalizeQuestions(vquestions, <<perm>>)
    /\ vstage' = "finalized"
    /\ UNCHANGED <<vquestions, verrors, sessionVars, generationVars, schedulerVars>>

NextValidation ==
    \/ ValidateQuestions
    \/ FinalizeValidated

SpecValidation == ValidationInit /\ [][NextValidation]_vars

(***************************************************************************)
(* Question generation (_generate_questions_openai): the request to the     *)
(* model, the targeted repair rounds, the topic plan, finalization.         *)
(* The model's answers are inputs: any list of the sample items, of the     *)
(* asked length or not, or no usable answer at all.                         *)
(***************************************************************************)
\* _extract_questions(raw, .., expected_count): the list when raw parses to a
\* list (or {"questions": list}) of expected_count items; <<>> is not a list
\* that can be returned for expected_count >= 1 and stands for the ValueError
ExtractQuestions(raw, expected_count) ==
    IF raw.json /\ Len(raw.questions) = expected_count
    THEN [raised |-> FALSE, questions |-> raw.questions]
    ELSE [raised |-> TRUE, questions |-> <<>>]

\* the ValueError of _extract_questions: raw is not JSON of a list, or the list
\* has not expected_count items
ExtractError(raw) == IF raw.json THEN "count" ELSE "parse"

\* _collect_topic_plan_errors: {index: reason}, indices from 0
CollectTopicPlanErrors(qs, plan) ==
    IF plan = <<>> THEN [x \in {} |-> 0]
    ELSE [i \in {j \in 0..(Min(Len(qs), Len(plan)) - 1) :
                    ~qs[j + 1].isDict \/ qs[j + 1].topic # plan[j + 1]}
            |-> "topic"]

\* the indices of an errors dict in sorted order
RECURSIVE SortedIndices(_)
SortedIndices(S) ==
    IF S = {} THEN <<>>
    ELSE LET m == CHOOSE x \in S : \A y \in S : x <= y
         IN  <<m>> \o SortedIndices(S \ {m})

\* the replacements spliced in against the order of the indices
ReplaceSlotsDescending(qs, replacements, errors) ==
    LET idxs == SortedIndices(DOMAIN errors)
        n    == Min(Len(replacements), Len(idxs))
    IN  [i \in 1..Len(qs) |->
           IF \E k \in 1..n : idxs[k] = i - 1
           THEN replacements[n + 1 - (CHOOSE k \in 1..n : idxs[k] = i - 1)]
           ELSE qs[i]]

\* for repl, idx in zip(repaired, sorted(errors)): parsed[idx] = repl
ReplaceSlots(qs, replacements, errors) ==
    LET idxs == SortedIndices(DOMAIN errors)
    IN  [i \in 1..Len(qs) |->
           IF \E k \in 1..Min(Len(replacements), Len(idxs)) : idxs[k] = i - 1
           THEN replacements[CHOOSE k \in 1..Min(Len(replacements), Len(idxs)) : idxs[k] = i - 1]
           ELSE qs[i]]

\* the topic plan loop without repl["topic"] = required_topics[idx]
KeepTopics(replacements, errors, plan) == replacements

\* repl["topic"] = required_topics[idx] for the replacements of the topic plan loop
ForceTopics(replacements, errors, plan) ==
    LET idxs == SortedIndices(DOMAIN errors)
    IN  [k \in 1..Len(replacements) |->
           IF k <= Len(idxs) THEN [replacements[k] EXCEPT !.topic = plan[idxs[k] + 1]]
           ELSE replacements[k]]

\* the questions the model is taken to write: valid ones on each topic of the
\* plan and on a misspelt topic, one with duplicate options, and an item that is
\* not an object
GoodOptions ==
    JsonList(<<JsonStr(<<"n", "a", "i">>), JsonStr(<<"n", "a", " ", "i">>),
               JsonStr(<<"o", "x", "i">>), JsonStr(<<"i", "s", "o", "s">>)>>)
DuplicateOptions ==
    JsonList(<<JsonStr(<<"n", "a", "i">>), JsonStr(<<"N", "a", "i", "!">>),
               JsonStr(<<"o", "x", "i">>), JsonStr(<<"i", "s", "o", "s">>)>>)

GeneratedItems ==
    {WellFormed(GoodOptions, JsonInt(1), t) : t \in {"Verbs", "Articles", "Verbz"}}
      \cup {WellFormed(DuplicateOptions, JsonInt(1), "Verbs"),
            [WellFormed(GoodOptions, JsonInt(1), "Verbs") EXCEPT !.isDict = FALSE]}

\* lists of n items
ItemLists(n) == [1..n -> GeneratedItems]

\* what the model may answer when asked for n questions: JSON with n items, JSON
\* with one item too few, or text that is not JSON
Answers(n) ==
    {[json |-> TRUE, questions |-> qs] : qs \in ItemLists(n) \cup ItemLists(n - 1)}
      \cup {[json |-> FALSE, questions |-> <<>>]}

\* the plans build_topic_sequence may hand over
Plans == [1..BatchSize -> {MASTER_TOPICS[i] : i \in 1..Len(MASTER_TOPICS)}]

GenerationInit ==
    /\ SessionInit
    /\ isOwner = FALSE
    /\ ValidationIdle
    /\ SchedulerIdle
    /\ required_topics \in Plans
    /\ parsed = <<>>
    /\ attempt = 1
    /\ repair_round = 0
    /\ gpc = "request"
    /\ returned = <<>>
    /\ repaired = <<>>
    /\ last_error = "none"
    /\ error = NoError

\* the retry loop without its bound: a failed attempt is always followed by
\* another one
AttemptFailedRetriesForever(e) ==
    /\ parsed' = <<>>
    /\ repair_round' = 0
    /\ returned' = <<>>
    /\ repaired' = <<>>
    /\ last_error' = e
    /\ attempt' = attempt
    /\ gpc' = "request"
    /\ error' = NoError

\* except ValueError as e: last_error = e, then the next attempt or the final
\* raise ValueError(".. Последняя ошибка: {last_error}")
AttemptFailed(e) ==
    /\ parsed' = <<>>
    /\ repair_round' = 0
    /\ returned' = <<>>
    /\ repaired' = <<>>
    /\ last_error' = e
    /\ IF attempt < OPENAI_MAX_ATTEMPTS
       THEN attempt' = attempt + 1 /\ gpc' = "request" /\ error' = NoError
       ELSE attempt' = attempt /\ gpc' = "raised"
            /\ error' = [kind |-> "attempts_exhausted", cause |-> e]

\* an exception that is not a ValueError, or the ValueError raised outside the
\* try (finish_reason == "length"), leaves _generate_questions_openai
Raised(e) ==
    /\ gpc' = "raised"
    /\ parsed' = <<>>
    /\ returned' = <<>>
    /\ repaired' = <<>>
    /\ error' = [kind |-> e, cause |-> e]
    /\ UNCHANGED <<attempt, repair_round, last_error>>

\* the topic plan loop from round r on, up to its next await
EnterTopicRound(qs, r, repl) ==
    /\ parsed' = qs
    /\ returned' = <<>>
    /\ repaired' = repl
    /\ UNCHANGED <<attempt, last_error, error>>
    /\ IF r <= 2 /\ DOMAIN CollectTopicPlanErrors(qs, required_topics) # {}
       THEN gpc' = "topic_repair" /\ repair_round' = r
       ELSE gpc' = "finalize" /\ repair_round' = 0

\* the question repair loop from round r on, up to its next await
EnterRepairRound(qs, r, repl) ==
    IF r <= 2 /\ DOMAIN CollectQuestionErrors(qs) # {}
    THEN /\ parsed' = qs
         /\ returned' = <<>>
         /\ repaired' = repl
         /\ gpc' = "repair"
         /\ repair_round' = r
         /\ UNCHANGED <<attempt, last_error, error>>
    ELSE EnterTopicRound(qs, 1, repl)

\* after "response = await client.chat.completions.create(..)"
ResponseReceived ==
    /\ gpc = "request"
    /\ \/ \E finish \in {"length", "api_error"} : Raised(finish)
       \/ \* raw is empty
          AttemptFailed("empty")
       \/ \E raw \in Answers(BatchSize) :
            LET extracted == ExtractQuestions(raw, BatchSize)
            IN  IF extracted.raised THEN AttemptFailed(ExtractError(raw))
                ELSE EnterRepairRound(extracted.questions, 1, repaired)
    /\ UNCHANGED <<required_topics, sessionVars, validationVars, schedulerVars>>

\* after "repaired = await _repair_questions_openai(..)" in the question loop
RepairReturned ==
    /\ gpc = "repair"
    /\ LET errors == CollectQuestionErrors(parsed)
           n      == Cardinality(DOMAIN errors)
       IN  \/ Raised("api_error")
           \/ \E raw \in Answers(n) :
                LET extracted == ExtractQuestions(raw, n)
                IN  IF extracted.raised THEN AttemptFailed(ExtractError(raw))
                    ELSE EnterRepairRound(ReplaceSlots(parsed, extracted.questions, errors),
                                          repair_round + 1, extracted.questions)
    /\ UNCHANGED <<required_topics, sessionVars, validationVars, schedulerVars>>

\* after "repaired = await _repair_questions_openai(..)" in the topic plan loop;
\* repl["topic"] = .. on an item that is not an object is a TypeError
TopicRepairReturned ==
    /\ gpc = "topic_repair"
    /\ LET errors == CollectTopicPlanErrors(parsed, required_topics)
           n      == Cardinality(DOMAIN errors)
       IN  \/ Raised("api_error")
           \/ \E raw \in Answers(n) :
                LET extracted == ExtractQuestions(raw, n)
                IN  IF extracted.raised THEN AttemptFailed(ExtractError(raw))
                    ELSE IF \E k \in 1..n : ~extracted.questions[k].isDict
                    THEN Raised("type_error")
                    ELSE EnterTopicRound(
                           ReplaceSlots(parsed,
                                        ForceTopics(extracted.questions, errors, required_topics),
                                        errors),
                           repair_round + 1,
                           ForceTopics(extracted.questions, errors, required_topics))
    /\ UNCHANGED <<required_topics, sessionVars, validationVars, schedulerVars>>

\* parsed = _finalize_questions(parsed); return parsed
FinalizeParsed ==
    /\ gpc = "finalize"
    /\ \E perms \in [1..Len(parsed) -> Shuffles(parsed)] :
         LET result == FinalizeQuestions(parsed, perms)
         IN  IF result.raised # "none" THEN AttemptFailed(result.raised)
             ELSE /\ returned' = result.questions
                  /\ parsed' = result.questions
                  /\ gpc' = "returned"
                  /\ repaired' = <<>>
                  /\ UNCHANGED <<attempt, repair_round, last_error, error>>
    /\ UNCHANGED <<required_topics, sessionVars, validationVars, schedulerVars>>

\* asyncio.wait_for(generate_questions(..), timeout) cancels the coroutine at
\* the await it is suspended in
GenerationCancelled ==
    /\ gpc \in {"request", "repair", "topic_repair"}
    /\ gpc' = "cancelled"
    /\ parsed' = <<>>
    /\ returned' = <<>>
    /\ UNCHANGED <<attempt, repair_round, repaired, last_error, error, required_topics,
                   sessionVars, validationVars, schedulerVars>>

NextGeneration ==
    \/ ResponseReceived
    \/ RepairReturned
    \/ TopicRepairReturned
    \/ FinalizeParsed
    \/ GenerationCancelled

SpecGeneration == GenerationInit /\ [][NextGeneration]_vars

\* Every await of the coroutine ends: the OpenAI client is built with a request
\* timeout, and asyncio.wait_for cancels the coroutine at its own timeout.
\* _finalize_questions has no await: the coroutine does not stay before it.
\* Termination is followed for two plans: one the content generator's topics
\* can match and one they cannot.
TerminationPlans == {<<"Verbs", "Articles">>, <<"Pronouns", "Verbs">>}

GenerationInitFair == GenerationInit /\ required_topics \in TerminationPlans

SpecGenerationFair ==
    /\ GenerationInitFair
    /\ [][NextGeneration]_vars
    /\ WF_vars(ResponseReceived)
    /\ WF_vars(RepairReturned)
    /\ WF_vars(TopicRepairReturned)
    /\ []<>(gpc # "finalize")

(***************************************************************************)
(* The topic scheduler: build_topic_sequence of src/bot.py (the one         *)
(* _start_new_quiz calls) and build_topic_sequence of src/topics.py.        *)
(* Dates are day numbers; NoValue stands for a key that is missing or None. *)
(* inp is the call: [stats, session_dates, topic_memory, total_questions].   *)
(***************************************************************************)
NoValue == -1

\* acc(topic) as <<correct, total>>, <<0, 1>> for 0.0
Acc(inp, topic) ==
    IF topic \in DOMAIN inp.stats /\ inp.stats[topic].total # 0
    THEN <<inp.stats[topic].correct, inp.stats[topic].total>>
    ELSE <<0, 1>>

OverdueDays(inp, topic) ==
    IF topic \in DOMAIN inp.topic_memory /\ inp.topic_memory[topic].due_at # NoValue
    THEN Max(Today - inp.topic_memory[topic].due_at, 0)
    ELSE 0

LastSeenDays(inp, topic) ==
    LET from_memory == IF topic \in DOMAIN inp.topic_memory
                       THEN inp.topic_memory[topic].last_seen ELSE NoValue
        from_stats  == IF topic \in DOMAIN inp.stats
                       THEN inp.stats[topic].last_seen ELSE NoValue
        last_s      == IF from_memory # NoValue THEN from_memory ELSE from_stats
    IN  IF last_s = NoValue THEN 999 ELSE Today - last_s

SeenTopics(inp) == {t \in DOMAIN inp.stats : inp.stats[t].total > 0}

\* [t for t in MASTER_TOPICS if keep(t)]
MasterTopicsIn(S) == SelectSeq(MASTER_TOPICS, LAMBDA t : t \in S)
MasterSet == {MASTER_TOPICS[i] : i \in 1..Len(MASTER_TOPICS)}

\* the weak pool with the 0.60 boundary inside
WeakTopicsUpToBoundary(inp) ==
    MasterTopicsIn({t \in SeenTopics(inp) : ~RLess(<<60, 100>>, Acc(inp, t))})

UnseenTopics(inp) == MasterTopicsIn(MasterSet \ SeenTopics(inp))
WeakTopics(inp) ==
    MasterTopicsIn({t \in SeenTopics(inp) : RLess(Acc(inp, t), <<60, 100>>)})
MediumTopics(inp) ==
    MasterTopicsIn({t \in SeenTopics(inp) : /\ ~RLess(Acc(inp, t), <<60, 100>>)
                                            /\ RLess(Acc(inp, t), <<85, 100>>)})
StrongTopics(inp) ==
    MasterTopicsIn({t \in SeenTopics(inp) : ~RLess(Acc(inp, t), <<85, 100>>)})

\* the rest of the sort key once the first component is equal:
\* (acc(t) if weakest_first else -acc(t), -last_seen_days(t))
RestKeyLess(inp, weakest_first, a, b) ==
    LET lower == IF weakest_first THEN RLess(Acc(inp, a), Acc(inp, b))
                                  ELSE RLess(Acc(inp, b), Acc(inp, a))
        upper == IF weakest_first THEN RLess(Acc(inp, b), Acc(inp, a))
                                  ELSE RLess(Acc(inp, a), Acc(inp, b))
    IN  \/ lower
        \/ ~upper /\ LastSeenDays(inp, a) > LastSeenDays(inp, b)

\* src/bot.py sort_pool: key (-overdue_days(t), .., ..)
KeyLess(inp, weakest_first, a, b) ==
    \/ OverdueDays(inp, a) > OverdueDays(inp, b)
    \/ /\ OverdueDays(inp, a) = OverdueDays(inp, b)
       /\ RestKeyLess(inp, weakest_first, a, b)

\* src/topics.py mastery(topic), in hundredths
Mastery(inp, topic) ==
    LET m == IF topic \in DOMAIN inp.topic_memory
             THEN inp.topic_memory[topic].mastery ELSE NoValue
    IN  IF m = NoValue THEN (IF topic \in SeenTopics(inp) THEN 25 ELSE 15)
        ELSE Max(0, Min(100, m))

\* src/topics.py lapse_rate(topic) as <<numerator, denominator>>
LapseRate(inp, topic) ==
    LET reviews == IF topic \in DOMAIN inp.topic_memory /\ inp.topic_memory[topic].review_count # NoValue
                   THEN inp.topic_memory[topic].review_count ELSE 0
        lapses  == IF topic \in DOMAIN inp.topic_memory /\ inp.topic_memory[topic].lapses # NoValue
                   THEN inp.topic_memory[topic].lapses ELSE 0
    IN  IF reviews <= 0 THEN <<0, 1>> ELSE <<Max(0, Min(reviews, lapses)), reviews>>

\* src/topics.py priority(topic), times 14000, as <<numerator, denominator>> in
\* exact arithmetic: 0.45 * min(overdue / 14, 1.5) + 0.30 * (1 - mastery)
\* + 0.15 * lapse_rate + 0.10 * min(last_seen / 14, 1.5) + novelty
Priority(inp, topic) ==
    LET rate    == LapseRate(inp, topic)
        novelty == IF topic \in MasterSet \ SeenTopics(inp) THEN 3500 ELSE 0
        rest    == 450 * Min(OverdueDays(inp, topic), 21)
                     + 42 * (100 - Mastery(inp, topic))
                     + 100 * Min(LastSeenDays(inp, topic), 21)
                     + novelty
    IN  <<rest * rate[2] + 2100 * rate[1], rate[2]>>

\* src/topics.py sort_pool: key (-priority(t), .., ..)
TopicsKeyLess(inp, weakest_first, a, b) ==
    \/ RLess(Priority(inp, b), Priority(inp, a))
    \/ /\ ~RLess(Priority(inp, a), Priority(inp, b))
       /\ RestKeyLess(inp, weakest_first, a, b)

\* sorted(pool, key=..): stable, smallest key first.  byPriority selects the key
\* of src/topics.py.
Before(inp, weakest_first, byPriority, a, b) ==
    IF byPriority THEN TopicsKeyLess(inp, weakest_first, a, b)
    ELSE KeyLess(inp, weakest_first, a, b)

RECURSIVE SortPool(_, _, _, _)
SortPool(inp, pool, weakest_first, byPriority) ==
    IF pool = <<>> THEN <<>>
    ELSE LET first == CHOOSE i \in 1..Len(pool) :
                        /\ \A j \in 1..Len(pool) :
                             ~Before(inp, weakest_first, byPriority, pool[j], pool[i])
                        /\ \A j \in 1..(i - 1) :
                             Before(inp, weakest_first, byPriority, pool[i], pool[j])
             rest  == [k \in 1..(Len(pool) - 1) |-> IF k < first THEN pool[k] ELSE pool[k + 1]]
         IN  <<pool[first]>> \o SortPool(inp, rest, weakest_first, byPriority)

\* fill_from_pool that repeats the first topic of the pool
FillFromPoolFirstOnly(inp, sequence, pool, n, weakest_first) ==
    IF n <= 0 \/ pool = <<>> THEN sequence
    ELSE LET ordered == SortPool(inp, pool, weakest_first, FALSE)
             count   == Min(n, Max(inp.total_questions - Len(sequence), 0))
         IN  sequence \o [i \in 1..count |-> ordered[1]]

\* src/bot.py fill_from_pool: the sequence after the call
FillFromPool(inp, sequence, pool, n, weakest_first) ==
    IF n <= 0 \/ pool = <<>> THEN sequence
    ELSE LET ordered == SortPool(inp, pool, weakest_first, FALSE)
             count   == Min(n, Max(inp.total_questions - Len(sequence), 0))
         IN  sequence \o [i \in 1..count |-> ordered[((i - 1) % Len(ordered)) + 1]]

\* src/topics.py fill_from_pool, the while loop from index i on
RECURSIVE TopicsFillLoop(_, _, _, _, _)
TopicsFillLoop(inp, sequence, ordered, n, i) ==
    IF Len(sequence) < inp.total_questions /\ n > 0
    THEN LET first     == ordered[(i % Len(ordered)) + 1]
             candidate == IF /\ sequence # <<>>
                             /\ Len(ordered) > 1
                             /\ sequence[Len(sequence)] = first
                          THEN ordered[((i + 1) % Len(ordered)) + 1]
                          ELSE first
         IN  TopicsFillLoop(inp, Append(sequence, candidate), ordered, n - 1, i + 1)
    ELSE sequence

TopicsFillFromPool(inp, sequence, pool, n, weakest_first) ==
    IF n <= 0 \/ pool = <<>> THEN sequence
    ELSE TopicsFillLoop(inp, sequence, SortPool(inp, pool, weakest_first, TRUE), n, 0)

\* round(total_questions * p / 100) for p = 35, 25, 10: Python rounds a tie to
\* the even neighbour (the products that are ties, such as 2 * 0.25, are exact
\* in floating point)
PyRound(a, b) ==
    LET q == a \div b
        r == a % b
    IN  IF 2 * r < b THEN q
        ELSE IF 2 * r > b THEN q + 1
        ELSE IF q % 2 = 0 THEN q ELSE q + 1

Quotas(total_questions) ==
    [weak   |-> PyRound(total_questions * 35, 100),
     medium |-> PyRound(total_questions * 25, 100),
     strong |-> PyRound(total_questions * 10, 100),
     unseen |-> total_questions - PyRound(total_questions * 35, 100)
                  - PyRound(total_questions * 25, 100) - PyRound(total_questions * 10, 100)]

\* sequence[:total_questions]
Prefix(sequence, total_questions) == SubSeq(sequence, 1, Min(Len(sequence), Max(total_questions, 0)))

\* one call fill_from_pool(pool, n, weakest_first); n = NoValue stands for the
\* argument total_questions - len(sequence)
FillCall(pool, n, weakest_first) ==
    [pool |-> pool, n |-> n, weakest_first |-> weakest_first]

\* the two branches with learning mode up to three session dates
BranchFillCallsUpToThree(inp) ==
    IF Len(inp.session_dates) <= 3
    THEN <<FillCall(UnseenTopics(inp), Min(5, inp.total_questions), TRUE),
           FillCall(MasterTopicsIn(SeenTopics(inp)), NoValue, TRUE)>>
    ELSE <<FillCall(WeakTopics(inp), Quotas(inp.total_questions).weak, TRUE),
           FillCall(MediumTopics(inp), Quotas(inp.total_questions).medium, TRUE),
           FillCall(StrongTopics(inp), Quotas(inp.total_questions).strong, FALSE),
           FillCall(UnseenTopics(inp), Quotas(inp.total_questions).unseen, TRUE)>>

\* the adaptive branch without the fill from the weak pool
BranchFillCallsNoWeak(inp) ==
    IF Len(inp.session_dates) < 3
    THEN <<FillCall(UnseenTopics(inp), Min(5, inp.total_questions), TRUE),
           FillCall(MasterTopicsIn(SeenTopics(inp)), NoValue, TRUE)>>
    ELSE <<FillCall(MediumTopics(inp), Quotas(inp.total_questions).medium, TRUE),
           FillCall(StrongTopics(inp), Quotas(inp.total_questions).strong, FALSE),
           FillCall(UnseenTopics(inp), Quotas(inp.total_questions).unseen, TRUE)>>

\* the calls of fill_from_pool in the two branches of build_topic_sequence
BranchFillCalls(inp) ==
    IF Len(inp.session_dates) < 3
    THEN <<FillCall(UnseenTopics(inp), Min(5, inp.total_questions), TRUE),
           FillCall(MasterTopicsIn(SeenTopics(inp)), NoValue, TRUE)>>
    ELSE <<FillCall(WeakTopics(inp), Quotas(inp.total_questions).weak, TRUE),
           FillCall(MediumTopics(inp), Quotas(inp.total_questions).medium, TRUE),
           FillCall(StrongTopics(inp), Quotas(inp.total_questions).strong, FALSE),
           FillCall(UnseenTopics(inp), Quotas(inp.total_questions).unseen, TRUE)>>

\* src/bot.py build_topic_sequence without the fills from MASTER_TOPICS
FillCallsNoSafetyNet(inp) == BranchFillCalls(inp)

\* src/bot.py build_topic_sequence: the calls of fill_from_pool in order.  The
\* fills from MASTER_TOPICS stand under "if len(sequence) < total_questions";
\* with n = total_questions - len(sequence) the call returns at once (n <= 0)
\* when the test is false.
FillCalls(inp) ==
    BranchFillCalls(inp)
      \o (IF Len(inp.session_dates) < 3 THEN <<>>
          ELSE <<FillCall(MASTER_TOPICS, NoValue, TRUE)>>)
      \o <<FillCall(MASTER_TOPICS, NoValue, TRUE)>>

\* src/topics.py days_since_last_session
DaysSinceLastSession(inp) ==
    IF inp.session_dates = <<>> THEN 0
    ELSE Max(Today - inp.session_dates[Len(inp.session_dates)], 0)

\* src/topics.py build_topic_sequence: the review block first, one fill from
\* MASTER_TOPICS at the end
TopicsFillCalls(inp) ==
    (IF /\ Len(inp.session_dates) >= 3
        /\ DaysSinceLastSession(inp) >= 2
        /\ MasterTopicsIn(SeenTopics(inp)) # <<>>
     THEN <<FillCall(MasterTopicsIn(SeenTopics(inp)), Min(8, inp.total_questions), TRUE)>>
     ELSE <<>>)
      \o BranchFillCalls(inp)
      \o <<FillCall(MASTER_TOPICS, NoValue, TRUE)>>

\* the calls made one after the other on the sequence; byPriority selects
\* fill_from_pool of src/topics.py
RECURSIVE RunFillCalls(_, _, _, _)
RunFillCalls(inp, sequence, calls, byPriority) ==
    IF calls = <<>> THEN sequence
    ELSE LET call == Head(calls)
             n    == IF call.n = NoValue THEN inp.total_questions - Len(sequence) ELSE call.n
         IN  RunFillCalls(inp,
                          IF byPriority
                          THEN TopicsFillFromPool(inp, sequence, call.pool, n, call.weakest_first)
                          ELSE FillFromPool(inp, sequence, call.pool, n, call.weakest_first),
                          Tail(calls), byPriority)

\* src/bot.py build_topic_sequence up to random.shuffle
FilledSequence(inp) == RunFillCalls(inp, <<>>, FillCalls(inp), FALSE)

\* the orders random.shuffle may leave a list of n items in: every order of a
\* list of up to MaxShuffle items, the reversed and the rotated list beyond
Orders(n) ==
    IF n <= MaxShuffle
    THEN {p \in [1..n -> 1..n] : \A i, j \in 1..n : i # j => p[i] # p[j]}
    ELSE {[i \in 1..n |-> n + 1 - i], [i \in 1..n |-> (i % n) + 1]}

\* build_topic_sequence that draws every slot anew instead of shuffling
BuildTopicSequenceResampled(inp, order) ==
    LET filled == FilledSequence(inp)
    IN  Prefix([i \in 1..Len(filled) |-> filled[order[1]]], inp.total_questions)

\* src/bot.py build_topic_sequence; order is what random.shuffle did
BuildTopicSequence(inp, order) ==
    LET filled == FilledSequence(inp)
    IN  Prefix([i \in 1..Len(filled) |-> filled[order[i]]], inp.total_questions)

\* src/topics.py build_topic_sequence
TopicsBuildTopicSequence(inp) ==
    Prefix(RunFillCalls(inp, <<>>, TopicsFillCalls(inp), TRUE), inp.total_questions)

(***************************************************************************)
(* Sample inputs of the scheduler.                                          *)
(***************************************************************************)
\* the topic_stats rows a topic may have: weak (2/5, 1/4), strong (19/20), on
\* the 0.60 boundary (3/5), medium (5/8), on the 0.85 boundary (17/20), never
\* answered (0/0); "Other" is a topic that is not one of MASTER_TOPICS
StatsRows ==
    [Verbs       |-> {[correct |-> 2, total |-> 5, last_seen |-> Today - 3],
                      [correct |-> 19, total |-> 20, last_seen |-> Today - 7]},
     PastTense   |-> {[correct |-> 1, total |-> 4, last_seen |-> Today - 3],
                      [correct |-> 3, total |-> 5, last_seen |-> Today - 1]},
     FutureTense |-> {[correct |-> 5, total |-> 8, last_seen |-> Today - 6]},
     Negation    |-> {[correct |-> 17, total |-> 20, last_seen |-> Today - 2]},
     Pronouns    |-> {[correct |-> 0, total |-> 0, last_seen |-> NoValue]},
     Other       |-> {[correct |-> 1, total |-> 4, last_seen |-> Today - 4]}]

\* topic_memory: empty, or a row that is overdue with lapses and a row that is
\* not yet due
MemoryDicts ==
    {<<>>,
     [Verbs     |-> [mastery |-> 15, due_at |-> Today - 4, last_seen |-> Today - 10,
                     review_count |-> 10, lapses |-> 5],
      PastTense |-> [mastery |-> NoValue, due_at |-> Today + 3, last_seen |-> Today - 1,
                     review_count |-> 10, lapses |-> 0]]}

\* the dicts that give some of the keys one of their rows
RECURSIVE Dicts(_)
Dicts(rows) ==
    IF DOMAIN rows = {} THEN {<<>>}
    ELSE LET key  == CHOOSE k \in DOMAIN rows : TRUE
             rest == Dicts([k \in DOMAIN rows \ {key} |-> rows[k]])
         IN  rest \cup {(key :> row) @@ d : row \in rows[key], d \in rest}

\* no session yet, two dates with the last one three days ago, three dates with
\* the last one two days ago, three dates with the last one yesterday
SessionDateLists ==
    {<<>>, <<Today - 5, Today - 3>>, <<Today - 10, Today - 7, Today - 2>>,
     <<Today - 3, Today - 2, Today - 1>>}

SchedulerInit ==
    /\ SessionInit
    /\ isOwner = FALSE
    /\ ValidationIdle
    /\ GenerationIdle
    /\ \E stats \in Dicts(StatsRows),
          topic_memory \in MemoryDicts,
          session_dates \in SessionDateLists,
          total_questions \in 1..MaxPlan :
            sched = [stats |-> stats, session_dates |-> session_dates,
                     topic_memory |-> topic_memory, total_questions |-> total_questions]
    /\ topic_sequence = <<>>
    /\ previous_sequence = <<>>
    /\ spc = "input"

\* required_topics = build_topic_sequence(..) of src/bot.py, and a second call
\* on the same arguments
PlanBuilt ==
    /\ spc \in {"input", "built"}
    /\ \E order \in Orders(Len(FilledSequence(sched))) :
         topic_sequence' = BuildTopicSequence(sched, order)
    /\ previous_sequence' = topic_sequence
    /\ spc' = IF spc = "input" THEN "built" ELSE "built_again"
    /\ UNCHANGED <<sched, sessionVars, validationVars, generationVars>>

\* sequence = build_topic_sequence(..) of src/topics.py, and a second call on
\* the same arguments
TopicsPlanBuilt ==
    /\ spc \in {"input", "topics_built"}
    /\ topic_sequence' = TopicsBuildTopicSequence(sched)
    /\ previous_sequence' = topic_sequence
    /\ spc' = IF spc = "input" THEN "topics_built" ELSE "topics_built_again"
    /\ UNCHANGED <<sched, sessionVars, validationVars, generationVars>>

NextScheduler ==
    \/ PlanBuilt
    \/ TopicsPlanBuilt

SpecScheduler == SchedulerInit /\ [][NextScheduler]_vars



(***************************************************************************)
(* _update_topic_memory_for_answer on its own: the topic_memory row of one  *)
(* topic, starting from no row or from a sample row, is updated answer by   *)
(* answer.                                                                  *)
(***************************************************************************)
\* mastery (hundredths) at and near its ends, the default
SampleMasteries == {0, 8, 25, 95, 100}
\* stability at its ends, and 33 (33 * 1.4 > 45)
SampleStabilities == {<<1, 1>>, <<33, 1>>, <<45, 1>>}
\* review_count and lapses: none, every review a lapse, one lapse in three
SampleReviews == {<<0, 0>>, <<3, 3>>, <<3, 1>>}

SampleMemoryRows ==
    {[mastery |-> m, stability |-> st, due_at |-> 1, last_seen |-> 0,
      review_count |-> r[1], lapses |-> r[2]] :
       m \in SampleMasteries, st \in SampleStabilities, r \in SampleReviews}

MemoryInit ==
    /\ now = 0
    /\ isOwner = FALSE
    /\ user_sessions = 0
    /\ heap = EmptyTable
    /\ paused_sessions = <<>>
    /\ \/ db = EmptyDb
       \/ \E row \in SampleMemoryRows :
            db = [EmptyDb EXCEPT !.topic_memory = Upsert(EmptyTable, MASTER_TOPICS[1], row)]
    /\ handlers = [s \in Slots |-> Idle]
    /\ presented = {}
    /\ promptShown = FALSE
    /\ lastReply = "none"
    /\ overlaps = 0
    /\ generated = 0
    /\ lastLog = "none"
    /\ ContentIdle

\* await _update_topic_memory_for_answer(conn, user_id, topic, correct)
Observe ==
    /\ MASTER_TOPICS[1] \in DOMAIN db.topic_memory
         => db.topic_memory[MASTER_TOPICS[1]].review_count < MaxReviews
    /\ \E correct \in BOOLEAN :
         db' = [db EXCEPT !.topic_memory =
                  UpdateTopicMemoryForAnswer(@, MASTER_TOPICS[1], correct, DateOf(now))]
    /\ UNCHANGED <<now, isOwner, user_sessions, heap, paused_sessions, handlers, presented,
                   promptShown, lastReply, overlaps, generated, lastLog, contentVars>>

NextMemory == Observe

SpecMemory == MemoryInit /\ [][NextMemory]_vars

(***************************************************************************)
(* Properties.                                                             *)
(***************************************************************************)
\* the user has a persisted session that _load_paused_session would return
HasUnexpiredPaused == paused_sessions # <<>> /\ paused_sessions[1].expires_at > now

\* handle_answer past "session['answers'].append(..)": the event has been scored
ScoredPcs == {"answer_reply", "answer_save", "finish_save", "finish_delete"}

\* handle_answer between "q = session['questions'][session['current']]" and the
\* end of the persist of the advanced index (or of the commit of the last answer)
InAnswerTransition(s) ==
    handlers[s].kind = "answer" /\ handlers[s].pc \in {"answer_reply", "answer_save", "finish_save"}

RECURSIVE SumOver(_, _)
SumOver(f, S) ==
    IF S = {} THEN 0
    ELSE LET x == CHOOSE y \in S : TRUE IN f[x] + SumOver(f, S \ {x})

C2_StaleEventNotScored ==
    \A s \in Slots : handlers[s].pc = "answer_reply" => handlers[s].q = handlers[s].target

C4_ResumeAfterRestart ==
    [][(ProcessRestart /\ AllIdle /\ user_sessions # 0 /\ ~heap[user_sessions].unsaved)
       => LET resumed == LoadPausedSession(paused_sessions', now')
          IN  resumed # <<>> =>
                /\ resumed[1].current = heap[user_sessions].current
                /\ resumed[1].answers = heap[user_sessions].answers
                /\ resumed[1].questions = heap[user_sessions].questions]_vars

\* C4 witness: after a process restart (nothing else leaves user_sessions empty
\* with a question as the last message) an answer handler has loaded the
\* persisted session, and it carries progress.
C4_Witness ==
    \E s \in Slots :
        /\ handlers[s].kind = "answer" /\ handlers[s].pc = "answer_ack" /\ handlers[s].paused
        /\ lastReply = "question"
        /\ user_sessions = handlers[s].session
        /\ heap[user_sessions].current > 0
        /\ Len(heap[user_sessions].answers) = heap[user_sessions].current

C6_OneActiveSession ==
    /\ []((user_sessions # 0 /\ HasUnexpiredPaused)
          => heap[user_sessions].sid = paused_sessions[1].sid)
    /\ [][(\E s \in Slots : handlers[s].pc = "new_gen" /\ handlers'[s].pc = "new_save")
          => ~HasUnexpiredPaused]_vars

\* C6 witness: a new session has just been created while the row of an earlier,
\* expired session is still in paused_sessions.
C6_Witness ==
    \E s \in Slots :
        /\ handlers[s].pc = "new_save"
        /\ user_sessions = handlers[s].session
        /\ paused_sessions # <<>>
        /\ paused_sessions[1].sid # heap[user_sessions].sid

\* C7: a step in which generation fails (timeout or error) writes no
\* paused_sessions row, creates no in-memory session, leaves the user without
\* an unexpired persisted session, and sends the failure notice.
C7_GenerationFailureLeavesNoSession ==
    [][(\E s \in Slots : GenerationTimeout(s) \/ GenerationFailed(s))
       => /\ paused_sessions' = paused_sessions
          /\ user_sessions' = user_sessions
          /\ heap' = heap
          /\ ~(paused_sessions' # <<>> /\ paused_sessions'[1].expires_at > now')
          /\ \A s \in Slots : handlers'[s] = Idle
          /\ lastReply' \in {"generation_timeout", "generation_error"}]_vars

\* C7 witness: the failure notice is the last message and the user has no
\* session of either kind.
C7_Witness ==
    /\ lastReply \in {"generation_timeout", "generation_error"}
    /\ AllIdle
    /\ user_sessions = 0
    /\ paused_sessions = <<>>
    /\ generated = 0

\* C8: the persist that follows a successful generation writes the full batch,
\* current_idx 0, no answers and expires_at = now + TTL, with the in-memory
\* session awaiting at index 0; the handler reaches the sending of the first
\* question only with that row written, and a start of a new quiz sends a
\* question from nowhere else.
C8_NewSessionPersistedBeforeFirstQuestion ==
    /\ [](\A s \in Slots :
            handlers[s].pc = "new_send"
            => /\ paused_sessions # <<>>
               /\ paused_sessions[1].sid = heap[handlers[s].session].sid
               /\ paused_sessions[1].current_idx = 0
               /\ paused_sessions[1].answers = JsonDumps(<<>>))
    /\ [][\A s \in Slots :
            /\ (handlers[s].pc = "new_save" /\ handlers'[s].pc = "new_send")
               => LET d == heap[handlers[s].session]
                  IN  /\ d.questions \in GeneratedBatches
                      /\ Len(d.questions) = NumQuestions
                      /\ d.awaiting /\ d.current = 0 /\ d.answers = <<>>
                      /\ paused_sessions' =
                           <<[questions     |-> JsonDumps(d.questions),
                              current_idx   |-> 0,
                              answers       |-> JsonDumps(<<>>),
                              session_dates |-> JsonDumps(d.session_dates),
                              expires_at    |-> now + PAUSED_SESSION_TTL_HOURS,
                              sid           |-> d.sid]>>
            /\ (/\ handlers[s].pc \in {"new_data", "new_gen", "new_save", "new_send"}
                /\ handlers'[s] = Idle
                /\ user_sessions' # 0
                /\ lastReply' = "question")
               => handlers[s].pc = "new_send"]_vars

\* C8 witness: the new session is persisted and its first question is about to
\* be sent.
C8_Witness ==
    \E s \in Slots :
        /\ handlers[s].pc = "new_send"
        /\ paused_sessions # <<>>
        /\ paused_sessions[1].expires_at = now + PAUSED_SESSION_TTL_HOURS
        /\ paused_sessions[1].current_idx = 0
        /\ heap[user_sessions].awaiting

\* C9: the answers of a session are committed at most once: no two rows of
\* quiz_sessions come from the same session.
C9_CommittedOnce ==
    \A i \in 1..Len(db.quiz_sessions), j \in 1..Len(db.quiz_sessions) :
        i # j => db.quiz_sessions[i].sid # db.quiz_sessions[j].sid

\* C10: every step leaves the four tables as they were, empties them all
\* (_clear_all), or adds the whole commit of the session being finished; and in
\* every state the tables agree: one answers row, one topic_stats increment and
\* one topic_memory review per answer of the logged sessions.
C10_CommitAllOrNothing ==
    /\ [](/\ Len(db.answers) =
               SumOver([i \in 1..Len(db.quiz_sessions) |-> db.quiz_sessions[i].total_questions],
                       1..Len(db.quiz_sessions))
          /\ Len(db.answers) =
               SumOver([t \in DOMAIN db.topic_stats |-> db.topic_stats[t].total],
                       DOMAIN db.topic_stats)
          /\ Len(db.answers) =
               SumOver([t \in DOMAIN db.topic_memory |-> db.topic_memory[t].review_count],
                       DOMAIN db.topic_memory))
    /\ [][\/ db' = db
          \/ db' = EmptyDb
          \/ \E s \in Slots :
               /\ handlers[s].pc = "finish_save"
               /\ db' = SaveAll(db, heap[handlers[s].session].answers, DateOf(now),
                                heap[handlers[s].session].sid)]_vars

\* C10 witness: _save_all failed after the quiz_sessions row, the answers rows
\* and a topic_stats increment had been executed, and none of them is in the
\* tables.
C10_Witness ==
    \E s \in Slots :
        /\ handlers[s].pc = "finish_delete"
        /\ ~handlers[s].saved
        /\ handlers[s].executed >= 3
        /\ db = EmptyDb

\* C11: a run of finish_quiz sends the result text exactly once whether the
\* commit succeeded or failed: when the commit failed the text has gone out
\* together with the error before the paused row is deleted and nothing is sent
\* after it; when it succeeded nothing has been sent before the deletion and the
\* text goes out right after it.
C11_ResultDeliveredOnce ==
    /\ [](\A s \in Slots :
            handlers[s].pc = "finish_delete"
            => /\ handlers[s].sent = (IF handlers[s].saved THEN 0 ELSE 1)
               /\ ~handlers[s].saved => lastReply = "result_with_save_error")
    /\ [][\A s \in Slots :
            FinishDeleted(s, BOOLEAN)
            => /\ handlers[s].sent + (IF lastReply' = "result" THEN 1 ELSE 0) = 1
               /\ lastReply' \in {"result", "result_with_save_error"}
               /\ handlers[s].saved <=> lastReply' = "result"]_vars

\* C11 witness: the commit failed, the result text has gone out with the error
\* and the session is dropped.
C11_Witness ==
    \E s \in Slots :
        /\ handlers[s].pc = "finish_delete"
        /\ ~handlers[s].saved
        /\ handlers[s].sent = 1
        /\ lastReply = "result_with_save_error"
        /\ user_sessions = 0
        /\ db.quiz_sessions = <<>>

SessionTtlElapsed ==
    /\ user_sessions # 0
    /\ paused_sessions # <<>>
    /\ paused_sessions[1].sid = heap[user_sessions].sid
    /\ paused_sessions[1].expires_at <= now

\* C13: an answer event that arrives when the TTL of the session has elapsed is
\* not taken up for scoring: the session counts as absent, so the handler ends
\* where the event is dispatched (acknowledged only) and no handler goes on to
\* score it.
C13_ExpiredSessionAbsent ==
    [][(BeginAnswer(FALSE) /\ SessionTtlElapsed) => handlers' = handlers]_vars

\* C14: a start request that finds an unexpired persisted session ends in the
\* paused prompt (resume or restart offered, no session bound and no question
\* sent by the start request itself); a resume continues at the persisted
\* current index; and a restart has deleted the persisted session by the time
\* it loads the data for generation.
C14_StartWithPausedLeadsToPrompt ==
    /\ [][\A s \in Slots :
            /\ (StartQuizLoaded(s) /\ HasUnexpiredPaused)
                 => /\ promptShown'
                    /\ lastReply' = "paused_prompt"
                    /\ user_sessions' = user_sessions
                    /\ handlers'[s] = Idle
            /\ (ResumeLoaded(s) /\ HasUnexpiredPaused)
                 => /\ user_sessions' # 0
                    /\ heap'[user_sessions'].current = paused_sessions[1].current_idx
                    /\ heap'[user_sessions'].answers = JsonLoads(paused_sessions[1].answers)]_vars
    /\ [](\A s \in Slots :
            (handlers[s].kind = "restart" /\ handlers[s].pc \in {"new_data", "new_gen"})
                 => paused_sessions = <<>> /\ user_sessions = 0)

\* C14 as the handlers behave: the prompt is the owner's (username ==
\* OWNER_USERNAME); for every other user a start request that finds an unexpired
\* persisted session binds it and resumes at the persisted current index without
\* offering a choice.  Resume continues at the persisted current index, and a
\* restart has deleted the persisted session by the time it loads the data for
\* generation.
C14_StartWithPausedPromptsOwnerOnly ==
    /\ [][\A s \in Slots :
            /\ (StartQuizLoaded(s) /\ HasUnexpiredPaused /\ isOwner)
                 => /\ promptShown'
                    /\ lastReply' = "paused_prompt"
                    /\ user_sessions' = user_sessions
                    /\ handlers'[s] = Idle
            /\ (StartQuizLoaded(s) /\ HasUnexpiredPaused /\ ~isOwner)
                 => /\ promptShown' = promptShown
                    /\ lastReply' = "resuming"
                    /\ user_sessions' # 0
                    /\ heap'[user_sessions'].current = paused_sessions[1].current_idx
                    /\ handlers'[s].pc = "resume_send"
            /\ (ResumeLoaded(s) /\ HasUnexpiredPaused)
                 => /\ user_sessions' # 0
                    /\ heap'[user_sessions'].current = paused_sessions[1].current_idx
                    /\ heap'[user_sessions'].answers = JsonLoads(paused_sessions[1].answers)]_vars
    /\ [](\A s \in Slots :
            (handlers[s].kind = "restart" /\ handlers[s].pc \in {"new_data", "new_gen"})
                 => paused_sessions = <<>> /\ user_sessions = 0)

\* C14 witness: the owner's start request found an unexpired persisted session
\* with an answer already recorded and the prompt is on screen.
C14_Witness ==
    /\ AllIdle
    /\ isOwner
    /\ promptShown
    /\ lastReply = "paused_prompt"
    /\ HasUnexpiredPaused
    /\ paused_sessions[1].current_idx > 0

\* the user's in-memory session is the one the paused row holds, at the same point
InSyncWithPausedRow ==
    /\ user_sessions # 0
    /\ paused_sessions # <<>>
    /\ heap[user_sessions].sid = paused_sessions[1].sid
    /\ ~heap[user_sessions].unsaved

\* C15: a resume request that finds no unexpired persisted session enters
\* _start_new_quiz (generation) without binding anything; a resume request that
\* finds one leaves the persisted row as it is (current index and answers
\* included) and binds exactly what the row holds, so a repeated resume of a
\* session that is in step with its row changes neither current nor answers.
C15_ResumeFallsBackAndRepeats ==
    [][\A s \in Slots :
         /\ (ResumeLoaded(s) /\ ~HasUnexpiredPaused)
              => /\ handlers'[s].pc = "new_data"
                 /\ lastReply' = "preparing"
                 /\ user_sessions' = user_sessions
                 /\ paused_sessions' = paused_sessions
         /\ (ResumeLoaded(s) /\ HasUnexpiredPaused)
              => /\ paused_sessions' = paused_sessions
                 /\ user_sessions' # 0
                 /\ heap'[user_sessions'].current = paused_sessions[1].current_idx
                 /\ heap'[user_sessions'].answers = JsonLoads(paused_sessions[1].answers)
                 /\ InSyncWithPausedRow
                      => /\ heap'[user_sessions'].current = heap[user_sessions].current
                         /\ heap'[user_sessions'].answers = heap[user_sessions].answers
         /\ (ResumeSend(s) /\ handlers[s].kind = "resume")
              => /\ paused_sessions' = paused_sessions
                 /\ heap'[user_sessions'].current = heap[user_sessions].current
                 /\ heap'[user_sessions'].answers = heap[user_sessions].answers]_vars

\* C15 witness: a resume request found the persisted row expired and has got to
\* generation, nothing bound.
C15_Witness ==
    \E s \in Slots :
        /\ handlers[s].kind = "resume"
        /\ handlers[s].pc = "new_gen"
        /\ paused_sessions # <<>>
        /\ ~HasUnexpiredPaused
        /\ user_sessions = 0

\* C16: when the handler of a scored answer that is not the last of the quiz
\* ends (the persist step, the next question sent), the review of the answered
\* topic is in the persisted topic_memory: the topic has a row and its
\* review_count counts at least this review.
C16_ScoredAnswerUpdatesTopicMemory ==
    [][\A s \in Slots :
         AnswerSaved(s, BOOLEAN)
           => LET topic == heap[handlers[s].session].answers[handlers[s].q + 1].topic
              IN  /\ topic \in DOMAIN db'.topic_memory
                  /\ db'.topic_memory[topic].review_count >= 1]_vars

\* what each sample option text reads as once accents, punctuation, case and
\* surplus whitespace are disregarded
ReadsAs(text) ==
    CASE text \in { <<"n", "a", "i">>, <<"N", "a", "i">>, <<"n", "a", "i", "!">>,
                    <<"n", "a_acute", "i">>, <<" ", "n", "a", "i", " ", ".">> } -> "nai"
      [] text \in { <<"n", "a", " ", " ", "i">>, <<"n", "a", " ", "i">> }        -> "na i"
      [] text = <<"o", "x", "i">>                                                -> "oxi"
      [] text = <<"i", "s", "o", "s">>                                           -> "isos"
      [] OTHER                                                                   -> ""

\* the question has four options that are strings
HasFourTexts(q) ==
    /\ q.options.isList
    /\ Len(q.options.items) = 4
    /\ \A i \in 1..4 : q.options.items[i].isStr

TwoOptionsReadTheSame(q) ==
    \E i, j \in 1..4 : i # j /\ ReadsAs(q.options.items[i].text) = ReadsAs(q.options.items[j].text)

\* C18: once the validator has run, a question with two options that are equal
\* after canonicalization is rejected, and as "duplicate options" when it gets as
\* far as the options (it breaks no rule on the fields); a question whose four
\* options are pairwise distinct after canonicalization is not rejected for
\* duplicates.
C18_DuplicateOptionsRejected ==
    vstage \in {"validated", "finalized"} /\ HasFourTexts(vquestions[1])
      => LET q == vquestions[1]
         IN  /\ TwoOptionsReadTheSame(q)
                  => /\ 0 \in DOMAIN verrors
                     /\ FieldError(q) = "none" => verrors[0] = "duplicate_options"
             /\ ~TwoOptionsReadTheSame(q)
                  => (0 \in DOMAIN verrors => verrors[0] # "duplicate_options")

\* C18 witness: two options differing only by trailing punctuation and case, as
\* in the repository's test, reported as duplicate options.
C18_Witness ==
    /\ vstage = "validated"
    /\ vquestions[1].options.items[1].text = <<"n", "a", "i", "!">>
    /\ vquestions[1].options.items[2].text = <<"N", "a", "i">>
    /\ vquestions[1].options.items[3].text = <<"o", "x", "i">>
    /\ vquestions[1].options.items[4].text = <<"i", "s", "o", "s">>
    /\ 0 \in DOMAIN verrors
    /\ verrors[0] = "duplicate_options"

\* C19: when _finalize_questions returns, each question has its four option
\* texts as before in some order, and correctIndex points at the text it
\* pointed at before, whatever the shuffle.
C19_FinalizeKeepsCorrectText ==
    (vstage = "finalized" /\ vfinalized.raised = "none")
      => LET q == vquestions[1]
             f == vfinalized.questions[1]
         IN  /\ Len(f.options.items) = 4
             /\ f.correctIndex.isInt
             /\ f.correctIndex.value \in 0..3
             /\ f.options.items[f.correctIndex.value + 1]
                  = q.options.items[q.correctIndex.value + 1]
             /\ {f.options.items[i] : i \in 1..4} = {q.options.items[i] : i \in 1..4}

\* C19 witness: a returned question whose options came out in another order
\* with the correct one at another index.
C19_Witness ==
    /\ vstage = "finalized"
    /\ vfinalized.raised = "none"
    /\ vfinalized.questions[1].options # vquestions[1].options
    /\ vfinalized.questions[1].correctIndex.value = 2
    /\ vquestions[1].correctIndex.value = 0

\* C17: a batch returned by question generation has exactly BatchSize questions,
\* none of them breaks a validation rule, and the topic of each is the plan's
\* topic for its slot; and an attempt that reaches finalization with an invalid
\* item left after the repair rounds fails (ValueError) and returns nothing.
C17_ReturnedBatchValid ==
    /\ [](gpc = "returned"
            => /\ Len(returned) = BatchSize
               /\ DOMAIN CollectQuestionErrors(returned) = {}
               /\ \A i \in 1..BatchSize : returned[i].topic = required_topics[i])
    /\ [][(gpc = "finalize" /\ DOMAIN CollectQuestionErrors(parsed) # {})
            => /\ gpc' \in {"request", "raised"}
               /\ returned' = <<>>]_vars

\* C17 witness: a batch returned by the last attempt allowed, on a plan of two
\* different topics, its options no longer in the order the model wrote them.
C17_Witness ==
    /\ gpc = "returned"
    /\ attempt = OPENAI_MAX_ATTEMPTS
    /\ required_topics[1] = "Verbs"
    /\ required_topics[2] = "Articles"
    /\ returned[1].options # GoodOptions
    /\ returned[1].correctIndex.value # 1

\* C20: the plan build_topic_sequence returns (either scheduler) has exactly
\* total_questions entries, each of them one of MASTER_TOPICS, whatever the
\* stats, session dates and memory.
C20_PlanComplete ==
    spc \in {"built", "topics_built"}
      => /\ Len(topic_sequence) = sched.total_questions
         /\ \A i \in 1..Len(topic_sequence) :
              \E k \in 1..Len(MASTER_TOPICS) : topic_sequence[i] = MASTER_TOPICS[k]

\* C20 witness: adaptive mode (three session dates) with no stats at all, so the
\* weak, medium and strong pools are empty and the quotas fill 2 of 4 slots; the
\* plan still has 4 entries.
C20_Witness ==
    /\ spc = "built"
    /\ DOMAIN sched.stats = {}
    /\ Len(sched.session_dates) = 3
    /\ sched.total_questions = 4
    /\ Len(topic_sequence) = 4
    /\ Len(RunFillCalls(sched, <<>>, BranchFillCalls(sched), FALSE)) = 2

\* the scheduler has returned a plan: src/bot.py, src/topics.py
BotPlanned == spc \in {"built", "built_again"}
TopicsPlanned == spc \in {"topics_built", "topics_built_again"}

\* the plan before the final shuffle (src/topics.py returns it as it is)
PreShufflePlan == IF BotPlanned THEN FilledSequence(sched) ELSE topic_sequence

\* adaptive mode, the most recent session at least 2 days ago
ReturningUser == Len(sched.session_dates) >= 3 /\ DaysSinceLastSession(sched) >= 2

\* C21: in adaptive mode with the most recent session at least 2 days ago (and
\* a master topic seen before), the first min(8, N) slots of the plan before
\* the shuffle hold previously-seen topics only, and a second call on the same
\* arguments gives the same block.
C21_ReviewBlockFirst ==
    ((BotPlanned \/ TopicsPlanned) /\ ReturningUser /\ MasterTopicsIn(SeenTopics(sched)) # <<>>)
      => /\ \A i \in 1..Min(8, sched.total_questions) : PreShufflePlan[i] \in SeenTopics(sched)
         /\ spc = "topics_built_again"
              => SubSeq(topic_sequence, 1, Min(8, sched.total_questions))
                   = SubSeq(previous_sequence, 1, Min(8, sched.total_questions))

\* C21 for src/topics.py alone
C21_TopicsReviewBlockFirst == BotPlanned \/ C21_ReviewBlockFirst

\* how many entries of the returned plan are topics of the pool
DrawnFrom(pool) ==
    Cardinality({i \in 1..Len(topic_sequence) :
                   \E k \in 1..Len(pool) : pool[k] = topic_sequence[i]})

\* the whole numbers nearest to percent % of total_questions
NearestShare(percent) ==
    {q \in 0..sched.total_questions :
       /\ 2 * (100 * q - percent * sched.total_questions) <= 100
       /\ 2 * (percent * sched.total_questions - 100 * q) <= 100}

\* each accuracy pool has at least as many topics as q gives it
PoolsCover(q) ==
    /\ Len(WeakTopics(sched)) >= q.weak
    /\ Len(MediumTopics(sched)) >= q.medium
    /\ Len(StrongTopics(sched)) >= q.strong
    /\ Len(UnseenTopics(sched)) >= q.unseen

\* the plan has, within plus or minus 1, q.weak weak topics, q.medium medium
\* ones, q.strong strong ones and q.unseen unseen ones
WithinOne(q) ==
    /\ DrawnFrom(WeakTopics(sched)) - q.weak \in {-1, 0, 1}
    /\ DrawnFrom(MediumTopics(sched)) - q.medium \in {-1, 0, 1}
    /\ DrawnFrom(StrongTopics(sched)) - q.strong \in {-1, 0, 1}
    /\ DrawnFrom(UnseenTopics(sched)) - q.unseen \in {-1, 0, 1}

\* the quotas: 35%, 25%, 10% of N rounded, the remainder unseen
QuotaChoices ==
    {[weak |-> w, medium |-> m, strong |-> g, unseen |-> sched.total_questions - w - m - g] :
       w \in NearestShare(35), m \in NearestShare(25), g \in NearestShare(10)}

\* C22 as stated: in adaptive mode, when each accuracy pool has at least as many
\* topics as its quota, the number of plan entries from each pool is its quota
\* within plus or minus 1.
C22_QuotasMet ==
    ((BotPlanned \/ TopicsPlanned) /\ Len(sched.session_dates) >= 3)
      => /\ Quotas(sched.total_questions) \in QuotaChoices
         /\ PoolsCover(Quotas(sched.total_questions)) => WithinOne(Quotas(sched.total_questions))

\* the forced review block of src/topics.py is applied
ReviewBlockApplied ==
    TopicsPlanned /\ ReturningUser /\ MasterTopicsIn(SeenTopics(sched)) # <<>>

\* C22 amended: in adaptive mode, when no forced review block precedes the
\* quotas (src/bot.py has none; src/topics.py has one for a user whose last
\* session was 2 or more days ago) and each accuracy pool has at least as many
\* topics as its quota, the number of plan entries from each pool is its quota
\* within plus or minus 1.
C22_QuotasMetWithoutReviewBlock ==
    ((BotPlanned \/ TopicsPlanned) /\ Len(sched.session_dates) >= 3 /\ ~ReviewBlockApplied)
      => /\ Quotas(sched.total_questions) \in QuotaChoices
         /\ PoolsCover(Quotas(sched.total_questions)) => WithinOne(Quotas(sched.total_questions))

\* C22 witness: a plan of 5 in adaptive mode with two weak, one medium and two
\* unseen topics: the pools cover the quotas 2, 1, 0, 2.
C22_Witness ==
    /\ BotPlanned
    /\ Len(sched.session_dates) >= 3
    /\ sched.total_questions = 5
    /\ PoolsCover(Quotas(5))
    /\ DrawnFrom(WeakTopics(sched)) = 2
    /\ DrawnFrom(MediumTopics(sched)) = 1
    /\ DrawnFrom(UnseenTopics(sched)) = 2

\* C23: in learning mode with N >= 5 and at least 5 unseen master topics, the
\* plan (of either scheduler) contains at least 5 distinct unseen topics.
C23_LearningCoversUnseen ==
    (/\ BotPlanned \/ TopicsPlanned
     /\ Len(sched.session_dates) < 3
     /\ sched.total_questions >= 5
     /\ Len(UnseenTopics(sched)) >= 5)
      => Cardinality({topic_sequence[i] : i \in 1..Len(topic_sequence)}
                       \ SeenTopics(sched)) >= 5

\* C23 witness: a user with no history has asked for a plan of 9; one master
\* topic has been answered before, five have not, and a topic comes twice.
C23_Witness ==
    /\ BotPlanned
    /\ sched.session_dates = <<>>
    /\ sched.total_questions = 9
    /\ Len(UnseenTopics(sched)) = 5
    /\ Cardinality({topic_sequence[i] : i \in 1..Len(topic_sequence)} \ SeenTopics(sched)) = 5
    /\ \E i, j \in 1..9 : i # j /\ topic_sequence[i] = topic_sequence[j]

\* C24: with fewer than 3 session dates the scheduler runs in learning mode,
\* with 3 or more in adaptive mode.  Learning mode: the plan before the shuffle
\* starts with min(5, N) unseen topics (when there is one), whatever the
\* accuracy of the topics seen and however long ago the last session was.
\* Adaptive mode: when a weak topic exists and the weak quota is not 0, the
\* plan starts with a seen topic (the weak quota, or the review block).
C24_ModeByHistory ==
    (BotPlanned \/ TopicsPlanned)
      => /\ (Len(sched.session_dates) < 3 /\ UnseenTopics(sched) # <<>>)
              => \A i \in 1..Min(5, sched.total_questions) :
                   PreShufflePlan[i] \notin SeenTopics(sched)
         /\ (/\ Len(sched.session_dates) >= 3
             /\ WeakTopics(sched) # <<>>
             /\ \E q \in NearestShare(35) : q >= 1)
              => PreShufflePlan[1] \in SeenTopics(sched)

\* C24 witness: two session dates, the last one three days ago, and a weak
\* topic: the plan of 5 of src/topics.py holds unseen topics only.
C24_Witness ==
    /\ spc = "topics_built"
    /\ Len(sched.session_dates) = 2
    /\ DaysSinceLastSession(sched) >= 2
    /\ WeakTopics(sched) # <<>>
    /\ sched.total_questions = 5
    /\ \A i \in 1..5 : topic_sequence[i] \notin SeenTopics(sched)

\* the topic is in the list
InPool(topic, pool) == \E k \in 1..Len(pool) : pool[k] = topic

\* C25: every master topic is in exactly one of the pools the scheduler builds:
\* unseen (no stat, or total = 0), weak (correct/total < 60%), medium
\* (60% <= correct/total < 85%), strong (correct/total >= 85%).
C25_ExactlyOneClass ==
    (BotPlanned \/ TopicsPlanned)
      => \A k \in 1..Len(MASTER_TOPICS) :
           LET topic    == MASTER_TOPICS[k]
               answered == topic \in DOMAIN sched.stats /\ sched.stats[topic].total > 0
               correct  == IF answered THEN sched.stats[topic].correct ELSE 0
               total    == IF answered THEN sched.stats[topic].total ELSE 0
           IN  /\ InPool(topic, UnseenTopics(sched)) <=> ~answered
               /\ InPool(topic, WeakTopics(sched)) <=> (answered /\ 100 * correct < 60 * total)
               /\ InPool(topic, MediumTopics(sched))
                    <=> (answered /\ 100 * correct >= 60 * total /\ 100 * correct < 85 * total)
               /\ InPool(topic, StrongTopics(sched)) <=> (answered /\ 100 * correct >= 85 * total)
               /\ Cardinality({pool \in {UnseenTopics(sched), WeakTopics(sched),
                                          MediumTopics(sched), StrongTopics(sched)} :
                                 InPool(topic, pool)}) = 1

\* C25 witness: a plan was built from stats with 2/5 (weak), 3/5 (medium, on
\* the boundary), 17/20 (strong, on the boundary), a row with total = 0 and a
\* topic without a row (both unseen).
C25_Witness ==
    /\ BotPlanned
    /\ WeakTopics(sched) = <<"Verbs">>
    /\ sched.stats["Verbs"].correct = 2 /\ sched.stats["Verbs"].total = 5
    /\ MediumTopics(sched) = <<"PastTense">>
    /\ sched.stats["PastTense"].correct = 3 /\ sched.stats["PastTense"].total = 5
    /\ StrongTopics(sched) = <<"Negation">>
    /\ "Pronouns" \in DOMAIN sched.stats
    /\ UnseenTopics(sched) = <<"FutureTense", "Pronouns", "Articles">>

\* how often the topic is in the list
Occurrences(topic, list) == Cardinality({i \in 1..Len(list) : list[i] = topic})

C27_MemoryInRange ==
    \A topic \in DOMAIN db.topic_memory :
        /\ db.topic_memory[topic].mastery >= 0
        /\ db.topic_memory[topic].mastery <= 100
        /\ ~RLess(db.topic_memory[topic].stability, <<1, 1>>)
        /\ ~RLess(<<45, 1>>, db.topic_memory[topic].stability)

\* C27 witness: a row that had lapses = review_count = 3 has been observed four
\* more times; mastery is at 1 and stability at 45 after a lapse in between.
C27_Witness ==
    /\ MASTER_TOPICS[1] \in DOMAIN db.topic_memory
    /\ db.topic_memory[MASTER_TOPICS[1]].review_count = 7
    /\ db.topic_memory[MASTER_TOPICS[1]].lapses = 4
    /\ db.topic_memory[MASTER_TOPICS[1]].mastery = 100
    /\ db.topic_memory[MASTER_TOPICS[1]].stability = <<45, 1>>

\* no topic_memory row has more lapses than reviews
LapsesWithinReviews ==
    \A topic \in DOMAIN db.topic_memory :
        db.topic_memory[topic].lapses <= db.topic_memory[topic].review_count

\* C28: lapses <= review_count in every state, and every observed answer
\* raises review_count by exactly 1 and lapses by 1 when it was wrong (mastery
\* went down, or stayed at 0) and by 0 when it was right (mastery went up, or
\* stayed at 1).
C28_LapsesAtMostReviews ==
    /\ []LapsesWithinReviews
    /\ [][\A topic \in DOMAIN db'.topic_memory :
            LET old == IF topic \in DOMAIN db.topic_memory
                       THEN db.topic_memory[topic] ELSE DefaultMemory
                new == db'.topic_memory[topic]
            IN  /\ new.review_count = old.review_count + 1
                /\ \/ /\ new.lapses = old.lapses
                      /\ new.mastery >= old.mastery
                      /\ new.mastery > old.mastery \/ old.mastery = 100
                   \/ /\ new.lapses = old.lapses + 1
                      /\ new.mastery <= old.mastery
                      /\ new.mastery < old.mastery \/ old.mastery = 0]_vars

\* C28 witness: a topic without a row has been answered twice, once wrongly.
C28_Witness ==
    /\ MASTER_TOPICS[1] \in DOMAIN db.topic_memory
    /\ db.topic_memory[MASTER_TOPICS[1]].review_count = 2
    /\ db.topic_memory[MASTER_TOPICS[1]].lapses = 1
    /\ db.topic_memory[MASTER_TOPICS[1]].last_seen = DateOf(now)

\* the counter of the topic's topic_stats row, 0 without a row
StatsCounter(stats, topic, column) ==
    IF topic \in DOMAIN stats THEN stats[topic][column] ELSE 0

\* C29: correct <= total in every durable state; a step that changes
\* topic_stats is the full reset, or the commit of a session, which keeps every
\* row and raises total by the number of the session's answers on the topic and
\* correct by the number of the correct ones among them.
C29_StatsCounters ==
    /\ [](\A topic \in DOMAIN db.topic_stats :
            db.topic_stats[topic].correct <= db.topic_stats[topic].total)
    /\ [][db'.topic_stats # db.topic_stats
           => \/ db' = EmptyDb /\ lastReply' = "history_cleared"
              \/ \E s \in Slots :
                   /\ handlers[s].pc = "finish_save"
                   /\ DOMAIN db.topic_stats \subseteq DOMAIN db'.topic_stats
                   /\ LET as == heap[handlers[s].session].answers
                      IN  \A topic \in DOMAIN db'.topic_stats :
                            /\ StatsCounter(db'.topic_stats, topic, "total")
                                 = StatsCounter(db.topic_stats, topic, "total")
                                   + Cardinality({k \in 1..Len(as) : as[k].topic = topic})
                            /\ StatsCounter(db'.topic_stats, topic, "correct")
                                 = StatsCounter(db.topic_stats, topic, "correct")
                                   + Cardinality({k \in 1..Len(as) :
                                                    as[k].topic = topic /\ as[k].correct})]_vars

\* C29 witness: two sessions have been committed; a topic has been answered
\* three times or more, at least once correctly and at least once wrongly.
C29_Witness ==
    /\ Len(db.quiz_sessions) = 2
    /\ \E topic \in DOMAIN db.topic_stats :
         /\ db.topic_stats[topic].total >= 3
         /\ db.topic_stats[topic].correct >= 1
         /\ db.topic_stats[topic].correct < db.topic_stats[topic].total

\* C30: a session that awaits an answer, in user_sessions or stored in
\* paused_sessions, has as many answers as its current index says, and the
\* index is below the number of questions: the current question exists.
C30_CurrentQuestionExists ==
    /\ (user_sessions # 0 /\ heap[user_sessions].awaiting)
         => /\ Len(heap[user_sessions].answers) = heap[user_sessions].current
            /\ heap[user_sessions].current < Len(heap[user_sessions].questions)
    /\ \A i \in 1..Len(paused_sessions) :
         /\ Len(JsonLoads(paused_sessions[i].answers)) = paused_sessions[i].current_idx
         /\ paused_sessions[i].current_idx < Len(JsonLoads(paused_sessions[i].questions))

\* C30 witness: the first answer has been scored, the index advanced and the
\* session stored; the session awaits the answer to the second question.
C30_Witness ==
    /\ user_sessions # 0
    /\ heap[user_sessions].awaiting
    /\ heap[user_sessions].current = 1
    /\ Len(heap[user_sessions].answers) = 1
    /\ paused_sessions # <<>>
    /\ paused_sessions[1].current_idx = 1
    /\ \A s \in Slots : handlers[s] = Idle

\* the answers of session dict d line up with its questions: answer i has the
\* topic and type of question i, and the answers reach the current index or
\* one past it (the answer scored and the index not yet advanced)
AnswersAligned(d) ==
    /\ Len(d.answers) <= Len(d.questions)
    /\ Len(d.answers) \in {d.current, d.current + 1}
    /\ \A i \in 1..Len(d.answers) :
         /\ d.answers[i].topic = d.questions[i].topic
         /\ d.answers[i].type = d.questions[i].type

\* handler s scores an answer in this step
ScoringStep(s) == handlers[s].pc = "answer_ack" /\ handlers'[s].pc = "answer_reply"

\* handler s advances the index of its session in this step
AdvancingStep(s) == handlers[s].pc = "answer_reply" /\ handlers'[s].pc # "answer_reply"

\* C31: the i-th answer of every session, in memory or stored, has the topic
\* and type of question i; a scoring step appends one record for the question
\* at the current index, correct exactly when the selected option index is that
\* question's correctIndex; the index then advances by one, so no question is
\* answered twice and none is skipped.
C31_AnswersFollowQuestions ==
    /\ [](/\ \A a \in DOMAIN heap : AnswersAligned(heap[a])
          /\ \A i \in 1..Len(paused_sessions) :
               AnswersAligned([questions |-> JsonLoads(paused_sessions[i].questions),
                               answers   |-> JsonLoads(paused_sessions[i].answers),
                               current   |-> paused_sessions[i].current_idx]))
    /\ [][\A s \in Slots :
            LET a == handlers[s].session
            IN  /\ ScoringStep(s) =>
                     /\ Len(heap[a].answers) = heap[a].current
                     /\ heap'[a].current = heap[a].current
                     /\ heap'[a].questions = heap[a].questions
                     /\ heap'[a].answers =
                          Append(heap[a].answers,
                                 [topic   |-> heap[a].questions[heap[a].current + 1].topic,
                                  type    |-> heap[a].questions[heap[a].current + 1].type,
                                  correct |-> handlers[s].selected =
                                              heap[a].questions[heap[a].current + 1].correctIndex])
                /\ (AdvancingStep(s) /\ a \in DOMAIN heap') =>
                     /\ heap'[a].current = heap[a].current + 1
                     /\ heap'[a].answers = heap[a].answers]_vars

\* C31 witness: both questions of a session have been answered, one with the
\* option of its correctIndex and one with another option
C31_Witness ==
    \E a \in DOMAIN heap :
        /\ heap[a].current = NumQuestions
        /\ Len(heap[a].answers) = NumQuestions
        /\ heap[a].answers[1].correct
        /\ ~heap[a].answers[2].correct

\* the immutable part of every copy of a session: the dicts in memory and the
\* stored row as _load_paused_session would read it
Snapshots(hp, table) ==
    {[sid           |-> hp[a].sid,
      questions     |-> hp[a].questions,
      session_dates |-> hp[a].session_dates] : a \in DOMAIN hp}
    \cup
    {[sid           |-> table[i].sid,
      questions     |-> JsonLoads(table[i].questions),
      session_dates |-> JsonLoads(table[i].session_dates)] : i \in 1..Len(table)}

\* C32: all copies of one session, in memory and stored, hold the same question
\* batch and the same session_dates, and no step (answer transition, persist,
\* resume or any other) changes them while a copy of the session exists.
C32_BatchAndDatesImmutable ==
    /\ [](\A x, y \in Snapshots(heap, paused_sessions) : x.sid = y.sid => x = y)
    /\ [][\A x \in Snapshots(heap, paused_sessions), y \in Snapshots(heap', paused_sessions') :
            x.sid = y.sid => x = y]_vars

\* C32 witness: a session created with a non-empty session_dates snapshot has
\* been answered once, stored, and loaded again by a resume
C32_Witness ==
    \E s \in Slots :
        /\ handlers[s].pc = "resume_send"
        /\ user_sessions = handlers[s].session
        /\ heap[user_sessions].current = 1
        /\ heap[user_sessions].session_dates # <<>>
        /\ Len(heap[user_sessions].questions) = NumQuestions

\* the errors dict the repair round that awaits its answer was started for
ReportedErrors ==
    IF gpc = "repair" THEN CollectQuestionErrors(parsed)
    ELSE CollectTopicPlanErrors(parsed, required_topics)

\* a repair round ends in this step with its replacements spliced in
RepairRoundApplied ==
    /\ gpc \in {"repair", "topic_repair"}
    /\ gpc' \in {"repair", "topic_repair", "finalize"}

\* C33: a repair round that is applied replaces exactly the slots reported
\* invalid: the slot of the k-th smallest reported index receives the k-th
\* replacement (in the topic plan round with its topic overwritten), every
\* other slot keeps its question, and the batch keeps its length.
C33_RepairReplacesReportedSlots ==
    [][RepairRoundApplied =>
         LET idxs == SortedIndices(DOMAIN ReportedErrors)
         IN  /\ Len(idxs) >= 1
             /\ Len(repaired') = Len(idxs)
             /\ Len(parsed') = Len(parsed)
             /\ Len(parsed) = BatchSize
             /\ \A k \in 1..Len(idxs) : parsed'[idxs[k] + 1] = repaired'[k]
             /\ \A i \in 0..(Len(parsed) - 1) :
                  i \notin DOMAIN ReportedErrors => parsed'[i + 1] = parsed[i + 1]
             /\ gpc = "repair" => \A k \in 1..Len(idxs) : repaired'[k] \in GeneratedItems]_vars

\* C33 witness: a question repair round has replaced both slots of the batch
\* with two different replacements, in the order of the indices
C33_Witness ==
    /\ gpc \in {"repair", "topic_repair", "finalize"}
    /\ repair_round \in {0, 2}
    /\ Len(repaired) = 2
    /\ repaired[1] # repaired[2]
    /\ parsed = repaired
    /\ \A k \in 1..2 : repaired[k] \in GeneratedItems

\* every slot of qs is a question on the topic the plan gives for it
FollowsPlan(qs) ==
    \A i \in 1..Len(qs) : qs[i].isDict /\ qs[i].topic = required_topics[i]

\* C34: within one attempt the question repair loop runs its rounds 1 and 2 at
\* most, one after the other; the topic plan loop starts after it, only with
\* topic mismatches in the batch, and runs one round: that round stores every
\* replacement with the topic of the plan for its slot, so the batch it leaves
\* follows the plan and no second round is started.
C34_RepairRoundsBounded ==
    /\ [](/\ gpc = "repair" => repair_round \in {1, 2}
          /\ gpc = "topic_repair"
               => /\ repair_round = 1
                  /\ DOMAIN CollectTopicPlanErrors(parsed, required_topics) # {})
    /\ [][/\ (gpc = "request" /\ gpc' = "repair") => repair_round' = 1
          /\ (gpc = "repair" /\ gpc' = "repair")
               => repair_round' = repair_round + 1 /\ attempt' = attempt
          /\ gpc = "topic_repair" => gpc' # "repair"
          /\ (gpc = "topic_repair" /\ gpc' \in {"topic_repair", "finalize"})
               => /\ gpc' = "finalize"
                  /\ FollowsPlan(parsed')
                  /\ \A k \in 1..Len(repaired') :
                       repaired'[k].topic =
                         required_topics[SortedIndices(DOMAIN ReportedErrors)[k] + 1]
          /\ (gpc \in {"request", "repair"} /\ gpc' = "finalize") => FollowsPlan(parsed')]_vars

\* C34 witness: the topic plan round has run and stored a replacement under a
\* topic the content generator did not write; the batch now follows the plan
C34_Witness ==
    /\ gpc = "finalize"
    /\ \E k \in 1..Len(repaired) : repaired[k] \notin GeneratedItems
    /\ FollowsPlan(parsed)
    /\ attempt = OPENAI_MAX_ATTEMPTS

\* an attempt fails in this step: the next attempt starts, or the attempts are
\* used up and the final ValueError is raised
AttemptFails ==
    \/ attempt' = attempt + 1
    \/ gpc # "raised" /\ gpc' = "raised" /\ error'.kind = "attempts_exhausted"

\* the causes an answer that cannot be used gives: nothing, no JSON list, or a
\* list of the wrong length
UnusableAnswerCauses == {"empty", "parse", "count"}

\* The safety part of C35, shared by its two readings: attempts stay within
\* OPENAI_MAX_ATTEMPTS and are counted one by one on failures; a batch that is
\* returned is complete and valid; an error that is raised reports the failure
\* that ended the last attempt; an answer with no JSON or the wrong number of
\* questions fails the attempt.
GenerationBounded ==
    /\ [](/\ gpc # "idle" => attempt \in 1..OPENAI_MAX_ATTEMPTS
          /\ gpc = "returned"
               => /\ error = NoError
                  /\ Len(returned) = BatchSize
                  /\ DOMAIN CollectQuestionErrors(returned) = {}
          /\ gpc = "raised"
               => /\ error.kind # "none"
                  /\ error.cause # "none"
                  /\ error.kind = "attempts_exhausted"
                       => attempt = OPENAI_MAX_ATTEMPTS /\ error.cause = last_error
          /\ (gpc \notin {"idle", "raised"}) => error = NoError)
    /\ [][/\ attempt' # attempt => attempt' = attempt + 1 /\ gpc' = "request"
          /\ AttemptFails
               => /\ last_error' # "none"
                  /\ gpc = "request" => last_error' \in UnusableAnswerCauses
                  /\ gpc \in {"repair", "topic_repair"} => last_error' \in {"parse", "count"}
                  /\ gpc = "finalize"
                       => /\ last_error' \notin UnusableAnswerCauses
                          /\ DOMAIN CollectQuestionErrors(parsed) # {}
          /\ (gpc' = "raised" /\ gpc # "raised" /\ ~AttemptFails)
               => /\ error'.kind \in {"length", "api_error", "type_error"}
                  /\ error'.kind = "length" => gpc = "request"
                  /\ error'.kind = "type_error" => gpc = "topic_repair"
          /\ gpc' = "returned" /\ gpc # "returned" => gpc = "finalize"]_vars

\* C35 as stated: question generation ends, by returning a batch or by raising
\* an error, within the attempts allowed.
C35_EndsByReturnOrRaise ==
    /\ <>(gpc \in {"returned", "raised"})
    /\ GenerationBounded

\* C35 with the third ending: question generation ends, within the attempts
\* allowed, by returning a validated batch, by raising an error that reports
\* the last failure, or by being cancelled at an await by the time limit of
\* asyncio.wait_for; an answer with no JSON or the wrong number of questions
\* fails the attempt and is never returned.
C35_GenerationTerminates ==
    /\ <>(gpc \in {"returned", "raised", "cancelled"})
    /\ GenerationBounded

\* C35 witness: the attempts are used up, the last one failed in validation on
\* duplicate options, and the error raised reports that failure
C35_Witness ==
    /\ gpc = "raised"
    /\ attempt = OPENAI_MAX_ATTEMPTS
    /\ error.kind = "attempts_exhausted"
    /\ error.cause = "duplicate_options"
    /\ last_error = "duplicate_options"

\* for every slot of the plan the calls build, the pool of the call that filled it
RECURSIVE SlotPools(_, _, _, _, _)
SlotPools(inp, sequence, pools, calls, byPriority) ==
    IF calls = <<>> THEN pools
    ELSE LET call  == Head(calls)
             n     == IF call.n = NoValue THEN inp.total_questions - Len(sequence) ELSE call.n
             after == IF byPriority
                      THEN TopicsFillFromPool(inp, sequence, call.pool, n, call.weakest_first)
                      ELSE FillFromPool(inp, sequence, call.pool, n, call.weakest_first)
         IN  SlotPools(inp, after,
                       pools \o [k \in 1..(Len(after) - Len(sequence)) |-> call.pool],
                       Tail(calls), byPriority)

\* no slot filled from a pool of two or more topics repeats the slot before it
NoAdjacentRepeat(plan, pools) ==
    /\ Len(pools) = Len(plan)
    /\ \A i \in 2..Len(plan) : Len(pools[i]) > 1 => plan[i] # plan[i - 1]

\* C36: in the plan src/bot.py's build_topic_sequence has filled, before the
\* shuffle, a slot filled from a pool with more than one topic differs from
\* the slot before it.
C36_NoAdjacentRepeat ==
    BotPlanned =>
        NoAdjacentRepeat(FilledSequence(sched),
                         SlotPools(sched, <<>>, <<>>, FillCalls(sched), FALSE))

\* C36 for src/topics.py: the plan its build_topic_sequence returns has no
\* slot filled from a pool with more than one topic equal to the slot before it.
C36_TopicsNoAdjacentRepeat ==
    TopicsPlanned =>
        NoAdjacentRepeat(topic_sequence,
                         SlotPools(sched, <<>>, <<>>, TopicsFillCalls(sched), TRUE))

\* C36 witness: src/topics.py replaced a candidate that would have repeated
\* the slot before it; the slot filled by src/bot.py in the same place repeats it
C36_Witness ==
    /\ TopicsPlanned
    /\ \E i \in 2..Len(topic_sequence) :
         /\ i <= Len(RunFillCalls(sched, <<>>, TopicsFillCalls(sched), FALSE))
         /\ RunFillCalls(sched, <<>>, TopicsFillCalls(sched), FALSE)[i]
              = topic_sequence[i - 1]
         /\ topic_sequence[i] # topic_sequence[i - 1]
         /\ \A j \in 1..(i - 1) :
              RunFillCalls(sched, <<>>, TopicsFillCalls(sched), FALSE)[j] = topic_sequence[j]

\* the call is in adaptive mode
AdaptiveMode == Len(sched.session_dates) >= 3

\* the order src/topics.py's fill_from_pool cycles through for a pool
TopicsOrdered(pool, weakest_first) == SortPool(sched, pool, weakest_first, TRUE)

\* consecutive topics of the list never rise in priority
DescendingPriority(ordered) ==
    \A k \in 1..(Len(ordered) - 1) :
        ~RLess(Priority(sched, ordered[k]), Priority(sched, ordered[k + 1]))

\* consecutive topics of the list never fall in priority, and of two with the
\* same priority the one with the higher accuracy comes first
AscendingPriorityThenDescendingAccuracy(ordered) ==
    \A k \in 1..(Len(ordered) - 1) :
        /\ ~RLess(Priority(sched, ordered[k + 1]), Priority(sched, ordered[k]))
        /\ ~RLess(Priority(sched, ordered[k]), Priority(sched, ordered[k + 1]))
             => ~RLess(Acc(sched, ordered[k]), Acc(sched, ordered[k + 1]))

\* C37: in adaptive mode src/topics.py fills the strong pool in ascending
\* priority order (then descending accuracy) and the weak, medium and unseen
\* pools in descending priority order.
C37_StrongPoolAscendingPriority ==
    (TopicsPlanned /\ AdaptiveMode) =>
        /\ AscendingPriorityThenDescendingAccuracy(TopicsOrdered(StrongTopics(sched), FALSE))
        /\ DescendingPriority(TopicsOrdered(WeakTopics(sched), TRUE))
        /\ DescendingPriority(TopicsOrdered(MediumTopics(sched), TRUE))
        /\ DescendingPriority(TopicsOrdered(UnseenTopics(sched), TRUE))

\* What src/topics.py does: every pool, the strong one included, is filled in
\* descending priority order; weakest_first = False only turns the accuracy
\* tie-break round.
C37_EveryPoolDescendingPriority ==
    (TopicsPlanned /\ AdaptiveMode) =>
        /\ DescendingPriority(TopicsOrdered(StrongTopics(sched), FALSE))
        /\ DescendingPriority(TopicsOrdered(WeakTopics(sched), TRUE))
        /\ DescendingPriority(TopicsOrdered(MediumTopics(sched), TRUE))
        /\ DescendingPriority(TopicsOrdered(UnseenTopics(sched), TRUE))

\* Every slot of the plan that was filled from a pool comes after a slot for
\* each topic of that pool with a strictly higher priority score: the pool is
\* gone through from its highest priority down.
HigherPriorityFirst(plan, pools) ==
    /\ Len(pools) = Len(plan)
    /\ \A j \in 1..Len(plan) :
         \A k \in 1..Len(pools[j]) :
             RLess(Priority(sched, plan[j]), Priority(sched, pools[j][k]))
               => \E i \in 1..(j - 1) : plan[i] = pools[j][k]

\* the pool of the first call of fill_from_pool that has a topic and a slot to fill
RECURSIVE FirstFillingPool(_)
FirstFillingPool(calls) ==
    IF calls = <<>> THEN <<>>
    ELSE IF Head(calls).pool # <<>> /\ Head(calls).n # 0 THEN Head(calls).pool
    ELSE FirstFillingPool(Tail(calls))

\* slot 0 is a topic of the pool that no topic of the pool exceeds in priority
HighestPriorityOf(topic, pool) ==
    /\ InPool(topic, pool)
    /\ \A k \in 1..Len(pool) : ~RLess(Priority(sched, topic), Priority(sched, pool[k]))

\* C38: in the plan src/bot.py's build_topic_sequence has filled, before the
\* shuffle, a topic with a strictly higher priority score is scheduled before
\* a topic of the same pool with a lower score, whatever their accuracies, and
\* slot 0 is the highest-priority topic of the first non-empty pool (the
\* function has no review block).
C38_HigherPriorityFirst ==
    (BotPlanned /\ AdaptiveMode) =>
        /\ HigherPriorityFirst(FilledSequence(sched),
                               SlotPools(sched, <<>>, <<>>, FillCalls(sched), FALSE))
        /\ HighestPriorityOf(FilledSequence(sched)[1], FirstFillingPool(FillCalls(sched)))

\* C38 for src/topics.py: the same two properties of the plan its
\* build_topic_sequence returns, slot 0 when the review block does not apply.
C38_TopicsHigherPriorityFirst ==
    (TopicsPlanned /\ AdaptiveMode) =>
        /\ HigherPriorityFirst(topic_sequence,
                               SlotPools(sched, <<>>, <<>>, TopicsFillCalls(sched), TRUE))
        /\ ~ReviewBlockApplied
             => HighestPriorityOf(topic_sequence[1], FirstFillingPool(TopicsFillCalls(sched)))

\* C39: in every durable state topic_memory has a row for exactly the topics
\* topic_stats has one for, with review_count equal to total and lapses equal
\* to total - correct: both tables count the same answers, from empty tables
\* through every commit and full reset.
C39_MemoryCountsMatchStats ==
    /\ DOMAIN db.topic_memory = DOMAIN db.topic_stats
    /\ \A topic \in DOMAIN db.topic_stats :
         /\ db.topic_memory[topic].review_count = db.topic_stats[topic].total
         /\ db.topic_memory[topic].lapses
              = db.topic_stats[topic].total - db.topic_stats[topic].correct

\* C39 witness: two sessions are committed and a topic has three reviews or
\* more, with a lapse and a correct answer among them
C39_Witness ==
    /\ Len(db.quiz_sessions) = 2
    /\ \E topic \in DOMAIN db.topic_memory :
         /\ db.topic_memory[topic].review_count >= 3
         /\ db.topic_memory[topic].lapses >= 1
         /\ db.topic_memory[topic].lapses < db.topic_memory[topic].review_count
         /\ topic \in DOMAIN db.topic_stats


\* the session has been answered to its last question
Completed(d) == d.current = Len(d.questions) /\ Len(d.answers) = Len(d.questions)

\* C40: a step that changes topic_stats, topic_memory, the answers log or the
\* session-date history is the full reset, which empties all four, or the
\* commit of finish_quiz for a session answered to its last question, which
\* logs that session alone: one quiz_sessions row and one answers row per
\* question of it.  Scoring an answer, advancing, saving or deleting the paused
\* row, restarting the process and the passing of time leave the four tables
\* as they are, so a session that is never completed never reaches them.
C40_OnlyCompletionOrResetWrites ==
    [][/\ db' # db
          => \/ db' = EmptyDb /\ lastReply' = "history_cleared"
             \/ \E s \in Slots :
                  /\ handlers[s].pc = "finish_save"
                  /\ handlers'[s].pc = "finish_delete"
                  /\ Completed(heap[handlers[s].session])
                  /\ Len(db'.quiz_sessions) = Len(db.quiz_sessions) + 1
                  /\ Len(db'.answers) =
                       Len(db.answers) + Len(heap[handlers[s].session].questions)
       /\ \A s \in Slots :
            (ScoringStep(s) \/ AdvancingStep(s) \/ handlers[s].pc # "finish_save")
              /\ handlers'[s] # handlers[s] /\ lastReply' # "history_cleared"
              => db' = db
       /\ (paused_sessions' # paused_sessions /\ lastReply' # "history_cleared")
            => db' = db]_vars

\* C40 witness: one session has been committed, and a later one holds a scored
\* answer and open questions, in memory or in its stored row, while the tables
\* hold the rows of the first session only.
C40_Witness ==
    /\ Len(db.quiz_sessions) = 1
    /\ Len(db.answers) = db.quiz_sessions[1].total_questions
    /\ \/ \E a \in DOMAIN heap :
            /\ Len(heap[a].answers) >= 1
            /\ heap[a].current < Len(heap[a].questions)
       \/ \E i \in 1..Len(paused_sessions) :
            /\ paused_sessions[i].current_idx >= 1
            /\ paused_sessions[i].current_idx < Len(JsonLoads(paused_sessions[i].questions))

====
